---- MODULE Spec2Model ----
(***************************************************************************)
(* Model of the brondau-front booking client: the booking dialog's slot    *)
(* computation and submission (BookingModal.tsx), the time-window helpers  *)
(* (timeUtils: parseTime, isWithinWorkHours, generateTimeSlots), the       *)
(* client booking store (DataContext.tsx) talking to the REST server, and  *)
(* the staff actions of AdminView.tsx.                                     *)
(*                                                                         *)
(* Instants are whole seconds of the browser's local wall clock counted    *)
(* from local midnight of day 0; a calendar date is a day number.          *)
(* An "HH:MM" string is the pair <<hours, minutes>>.                       *)
(***************************************************************************)
EXTENDS Integers, Sequences, FiniteSets, TLC

VARIABLES
    workStarts,     \* restaurant.workStarts, <<h, m>>
    workEnds,       \* restaurant.workEnds, <<h, m>>
    tz,             \* browser timezone: local time minus UTC, in minutes
    now,            \* the wall clock, seconds
    bookings,       \* bookings[c]: restaurant.bookings in client c's store
    layout,         \* layout[c][t]: seats of table t in client c's store
    dialog,         \* dialog[c]: the BookingModal of client c
    server,         \* the server's booking table, indexed by booking id
    net,            \* requests and responses in flight
    sweep,          \* sweep[c]: seconds until client c's interval comes due
    interval,       \* argument of generateTimeSlots
    slots,          \* result of generateTimeSlots, <<>> before the call
    within,         \* within[i]: isWithinWorkHours at the time of slots[i]
    statusColor,    \* statusColor[t]: table t on the staff floor map, <<>> before a render
    tableStatuses,  \* tableStatuses[t]: table t in the guest view, <<>> before a render
    timeLeft,       \* timeLeft[i]: CountdownTimer of the card of the store's i-th booking
    elements        \* elements[c]: seats per table in client c's floor-plan editor

vars == <<workStarts, workEnds, tz, now, bookings, layout, dialog, server,
          net, sweep, interval, slots, within, statusColor, tableStatuses,
          timeLeft, elements>>

\* what the views display
viewVars == <<statusColor, tableStatuses, timeLeft>>

\* the state of the time-window helpers' caller, the views' displays and
\* the floor-plan editor
helperVars == <<interval, slots, within, viewVars, elements>>

----------------------------------------------------------------------------
(* Bounds of the model *)

\* longest booking list an initial store is drawn with
MaxStoreLen == 2

\* most createBooking requests one client has in flight at a time
MaxInFlight == 1

----------------------------------------------------------------------------
(* types.ts *)

PENDING == "PENDING"
CONFIRMED == "CONFIRMED"
DECLINED == "DECLINED"
OCCUPIED == "OCCUPIED"
COMPLETED == "COMPLETED"

BookingStatus == {PENDING, CONFIRMED, DECLINED, OCCUPIED, COMPLETED}

Clients == {"staff", "g1", "g2", "owner"}

Tables == {"t1", "t2"}

Booking(id, tableId, dateTime, status, guestCount, declineReason, createdAt) ==
    [id |-> id, tableId |-> tableId, guestName |-> "", dateTime |-> dateTime,
     status |-> status, guestCount |-> guestCount,
     declineReason |-> declineReason, createdAt |-> createdAt]

----------------------------------------------------------------------------
(* JavaScript Date, at one-second resolution, in local time *)

DaySecs == 24 * 60 * 60

\* new Date(year, month - 1, day) followed by setHours(0, mins, 0, 0):
\* minutes past 24:00 roll over into the following days
LocalDate(day, mins) == day * DaySecs + mins * 60

getHours(d) == (d % DaySecs) \div 3600

getMinutes(d) == (d % 3600) \div 60

\* the calendar date, as compared by toDateString() and shown by getDate()
DateOf(d) == d \div DaySecs

\* new Date("YYYY-MM-DD"): a date-only string is read as midnight UTC,
\* which is tz minutes past (or before) local midnight
ParseDateOnly(day) == day * DaySecs + tz * 60

\* d.setHours(h, m, 0, 0): same local calendar date, new time of day
setHours(d, h, m) == DateOf(d) * DaySecs + h * 3600 + m * 60

\* d.setDate(d.getDate() + 1)
AddDay(d) == d + DaySecs

----------------------------------------------------------------------------
(* BookingModal.tsx: the slot computation *)

parseTime(timeStr) == timeStr[1] * 60 + timeStr[2]

\* mutation: the hour is not wrapped at midnight
TimeString_noWrap(time) == <<time \div 60, time % 60>>

\* `${String(h).padStart(2,'0')}:${String(m).padStart(2,'0')}`
TimeString(time) == <<(time \div 60) % 24, time % 60>>

Abs(x) == IF x < 0 THEN -x ELSE x

EndMins(ws, we) ==
    IF parseTime(we) <= parseTime(ws) THEN parseTime(we) + 24 * 60
    ELSE parseTime(we)

OccupyingStatuses == {CONFIRMED, OCCUPIED, PENDING}

\* mutation: find instead of filter, the first match in store order only
bookingsOnShift_firstOnly(bs, tableId, ws, we, bookingDate) ==
    LET shiftStart == LocalDate(bookingDate, parseTime(ws))
        shiftEnd == LocalDate(bookingDate, EndMins(ws, we))
        all == { i \in 1..Len(bs) :
                   /\ bs[i].tableId = tableId
                   /\ bs[i].status \in OccupyingStatuses
                   /\ bs[i].dateTime >= shiftStart
                   /\ bs[i].dateTime < shiftEnd }
    IN  { i \in all : \A j \in all : i <= j }

bookingsOnShift(bs, tableId, ws, we, bookingDate) ==
    LET shiftStart == LocalDate(bookingDate, parseTime(ws))
        shiftEnd == LocalDate(bookingDate, EndMins(ws, we))
    IN  { i \in 1..Len(bs) :
            /\ bs[i].tableId = tableId
            /\ bs[i].status \in OccupyingStatuses
            /\ bs[i].dateTime >= shiftStart
            /\ bs[i].dateTime < shiftEnd }

\* mutation: only the earliest booking of the shift is considered
bookingMinsList_earliestOnly(bs, tableId, ws, we, bookingDate) ==
    LET on == bookingsOnShift(bs, tableId, ws, we, bookingDate)
        first == { i \in on : \A j \in on : bs[i].dateTime <= bs[j].dateTime }
    IN  { LET bMins == getHours(bs[i].dateTime) * 60 + getMinutes(bs[i].dateTime)
          IN  IF bMins < parseTime(ws) THEN bMins + 24 * 60 ELSE bMins : i \in first }

bookingMinsList(bs, tableId, ws, we, bookingDate) ==
    { LET bMins == getHours(bs[i].dateTime) * 60 + getMinutes(bs[i].dateTime)
      IN  IF bMins < parseTime(ws) THEN bMins + 24 * 60 ELSE bMins :
        i \in bookingsOnShift(bs, tableId, ws, we, bookingDate) }

\* mutation: a booking exactly 60 minutes away blocks too
hasConflict_inclusive(time, minsList) == \E bm \in minsList : Abs(time - bm) <= 60

\* mutation: only a booking at or after the candidate blocks it
hasConflict_onlyBefore(time, minsList) ==
    \E bm \in minsList : bm - time >= 0 /\ bm - time < 60

hasConflict(time, minsList) == \E bm \in minsList : Abs(time - bm) < 60

\* mutation: the loop runs up to half an hour before the end of the shift
RECURSIVE SlotLoop_lastHalfHour(_, _, _, _, _)
SlotLoop_lastHalfHour(time, endMins, isToday, minBookingMins, minsList) ==
    IF time > endMins - 30 THEN <<>>
    ELSE LET rest == SlotLoop_lastHalfHour(time + 30, endMins, isToday,
                                           minBookingMins, minsList)
         IN  IF isToday /\ time < minBookingMins THEN rest
             ELSE IF hasConflict(time, minsList) THEN rest
             ELSE <<TimeString(time)>> \o rest

RECURSIVE SlotLoop(_, _, _, _, _)
SlotLoop(time, endMins, isToday, minBookingMins, minsList) ==
    IF time > endMins - 60 THEN <<>>
    ELSE LET rest == SlotLoop(time + 30, endMins, isToday, minBookingMins, minsList)
         IN  IF isToday /\ time < minBookingMins THEN rest
             ELSE IF hasConflict(time, minsList) THEN rest
             ELSE <<TimeString(time)>> \o rest

\* mutation: a lead of 16 minutes, so that a slot exactly 15 minutes ahead
\* is dropped
availableSlots_strictLead(bs, tableId, ws, we, bookingDate, nowv) ==
    LET startMins == parseTime(ws)
        endMins == EndMins(ws, we)
        isToday == bookingDate = DateOf(nowv)
        currentMins == getHours(nowv) * 60 + getMinutes(nowv)
        minBookingMins == IF isToday THEN currentMins + 16 ELSE 0
    IN  SlotLoop(startMins, endMins, isToday, minBookingMins,
                 bookingMinsList(bs, tableId, ws, we, bookingDate))

availableSlots(bs, tableId, ws, we, bookingDate, nowv) ==
    LET startMins == parseTime(ws)
        endMins == EndMins(ws, we)
        isToday == bookingDate = DateOf(nowv)
        currentMins == getHours(nowv) * 60 + getMinutes(nowv)
        minBookingMins == IF isToday THEN currentMins + 15 ELSE 0
    IN  SlotLoop(startMins, endMins, isToday, minBookingMins,
                 bookingMinsList(bs, tableId, ws, we, bookingDate))

Includes(seq, x) == \E i \in 1..Len(seq) : seq[i] = x

NoTime == <<>>

\* the effect without its else branch: an empty list leaves bookingTime alone
EffectBookingTime_noReset(slotList, bookingTime) ==
    IF Len(slotList) > 0
    THEN IF bookingTime = NoTime \/ ~Includes(slotList, bookingTime)
         THEN slotList[1] ELSE bookingTime
    ELSE bookingTime

\* the effect that keeps bookingTime a member of availableSlots
EffectBookingTime(slotList, bookingTime) ==
    IF Len(slotList) > 0
    THEN IF bookingTime = NoTime \/ ~Includes(slotList, bookingTime)
         THEN slotList[1] ELSE bookingTime
    ELSE NoTime

----------------------------------------------------------------------------
(* timeUtils: isWithinWorkHours and generateTimeSlots *)

isWithinWorkHours(time, ws, we) ==
    LET startMins == parseTime(ws)
        endMins == parseTime(we)
        timeMins == getHours(time) * 60 + getMinutes(time)
    IN  IF endMins < startMins
        THEN timeMins >= startMins \/ timeMins < endMins
        ELSE timeMins >= startMins /\ timeMins < endMins

RECURSIVE GenerateLoop(_, _, _)
GenerateLoop(current, endMins, step) ==
    IF current < endMins
    THEN <<TimeString(current)>> \o GenerateLoop(current + step, endMins, step)
    ELSE <<>>

\* mutation: the loop runs while current <= endMins
generateTimeSlots_throughEnd(ws, we, step) ==
    GenerateLoop(parseTime(ws), EndMins(ws, we) + 1, step)

generateTimeSlots(ws, we, step) == GenerateLoop(parseTime(ws), EndMins(ws, we), step)

\* a caller: generate the slots of the work hours, then ask isWithinWorkHours
\* about an instant at each slot's hour and minute
GenerateSlots ==
    /\ slots = <<>>
    /\ slots' = generateTimeSlots(workStarts, workEnds, interval)
    /\ UNCHANGED <<workStarts, workEnds, tz, now, bookings, layout, dialog,
                   server, net, sweep, interval, within, viewVars, elements>>

CheckSlots ==
    /\ slots # <<>>
    /\ within = <<>>
    /\ within' = [ i \in 1..Len(slots) |->
                     isWithinWorkHours(LocalDate(DateOf(now), parseTime(slots[i])),
                                       workStarts, workEnds) ]
    /\ UNCHANGED <<workStarts, workEnds, tz, now, bookings, layout, dialog,
                   server, net, sweep, interval, slots, viewVars, elements>>

----------------------------------------------------------------------------
(* BookingModal.tsx: the dialog's state *)

NoDialog ==
    [open |-> FALSE, table |-> "", bookingDate |-> 0, bookingTime |-> NoTime,
     availableSlots |-> <<>>, guestCount |-> 0, error |-> ""]

\* one render of an open dialog: the availableSlots memo, then the effect
Render(d, bs, nowv) ==
    LET sl == availableSlots(bs, d.table, workStarts, workEnds, d.bookingDate, nowv)
    IN  [d EXCEPT !.availableSlots = sl,
                  !.bookingTime = EffectBookingTime(sl, d.bookingTime)]

\* the dialog of client c after its store's booking list became bs
Rerender(c, bs) == IF dialog[c].open THEN Render(dialog[c], bs, now) ELSE dialog[c]

\* mounting <BookingModal table=...>: bookingDate = formatLocalDate(new Date())
OpenDialog(c, table) ==
    /\ ~dialog[c].open
    /\ dialog' = [dialog EXCEPT ![c] =
            Render([open |-> TRUE, table |-> table, bookingDate |-> DateOf(now),
                    bookingTime |-> NoTime, availableSlots |-> <<>>,
                    guestCount |-> 2, error |-> ""],
                   bookings[c], now)]
    /\ UNCHANGED <<workStarts, workEnds, tz, now, bookings, layout, server, net,
                   sweep, helperVars>>

\* the date input's onChange: setBookingDate(e.target.value)
SetBookingDate(c, date) ==
    /\ dialog[c].open
    /\ date # dialog[c].bookingDate
    /\ dialog' = [dialog EXCEPT ![c] =
            Render([dialog[c] EXCEPT !.bookingDate = date], bookings[c], now)]
    /\ UNCHANGED <<workStarts, workEnds, tz, now, bookings, layout, server, net,
                   sweep, helperVars>>

\* the time select's onChange: setBookingTime(e.target.value)
SetBookingTime(c, t) ==
    /\ dialog[c].open
    /\ Includes(dialog[c].availableSlots, t)
    /\ t # dialog[c].bookingTime
    /\ dialog' = [dialog EXCEPT ![c].bookingTime = t]
    /\ UNCHANGED <<workStarts, workEnds, tz, now, bookings, layout, server, net,
                   sweep, helperVars>>

\* the guest count input's onChange: setGuestCount(parseInt(e.target.value))
SetGuestCount(c, n) ==
    /\ dialog[c].open
    /\ n # dialog[c].guestCount
    /\ dialog' = [dialog EXCEPT ![c].guestCount = n]
    /\ UNCHANGED <<workStarts, workEnds, tz, now, bookings, layout, server, net,
                   sweep, helperVars>>

----------------------------------------------------------------------------
(* BookingModal.tsx: handleSubmit *)

\* the dateTime handed to addBooking for the chosen date and slot
SubmitDateTime(bookingDate, bookingTime) ==
    LET h == bookingTime[1]
        m == bookingTime[2]
        dateTime == setHours(ParseDateOnly(bookingDate), h, m)
        workStartH == workStarts[1]
    IN  IF h < workStartH /\ parseTime(bookingTime) < parseTime(workStarts)
        THEN AddDay(dateTime)
        ELSE dateTime

\* is there a later occupying booking of the table within 12 hours
hasNextBooking(bs, tableId, dateTime) ==
    \E i \in 1..Len(bs) :
        /\ bs[i].tableId = tableId
        /\ bs[i].status \in {CONFIRMED, OCCUPIED, PENDING}
        /\ bs[i].dateTime > dateTime
        /\ bs[i].dateTime - dateTime < 12 * 60 * 60

CreateBookingRequest(c, tableId, guestCount, dateTime) ==
    [type |-> "createBooking", from |-> c, tableId |-> tableId, guestName |-> c,
     guestCount |-> guestCount, dateTime |-> dateTime]

\* handleSubmit without the comparison of guestCount with table.seats
handleSubmit_noSeatCheck(c, contactOk, confirmed) ==
    LET d == dialog[c]
        dateTime == SubmitDateTime(d.bookingDate, d.bookingTime)
        req == CreateBookingRequest(c, d.table, d.guestCount, dateTime)
    IN  /\ d.open
        /\ IF ~contactOk
           THEN /\ dialog' = [dialog EXCEPT ![c].error = "contact"]
                /\ net' = net
           ELSE IF d.bookingTime = NoTime
           THEN /\ dialog' = [dialog EXCEPT ![c].error = "slot"]
                /\ net' = net
           ELSE IF hasNextBooking(bookings[c], d.table, dateTime) /\ ~confirmed
           THEN /\ dialog' = [dialog EXCEPT ![c].error = ""]
                /\ net' = net
           ELSE /\ req \notin net
                /\ Cardinality({ r \in net : r.type = "createBooking" /\ r.from = c })
                        < MaxInFlight
                /\ dialog' = [dialog EXCEPT ![c].error = ""]
                /\ net' = net \cup {req}
        /\ UNCHANGED <<workStarts, workEnds, tz, now, bookings, layout, server,
                       sweep, helperVars>>

\* the form's onSubmit, however the submit event was raised.
\* contactOk: name and phone are filled in and the phone has 11 digits;
\* confirmed: the answer to window.confirm when a later booking is close
handleSubmit(c, contactOk, confirmed) ==
    LET d == dialog[c]
        dateTime == SubmitDateTime(d.bookingDate, d.bookingTime)
        req == CreateBookingRequest(c, d.table, d.guestCount, dateTime)
    IN  /\ d.open
        /\ IF ~contactOk
           THEN /\ dialog' = [dialog EXCEPT ![c].error = "contact"]
                /\ net' = net
           ELSE IF d.guestCount > layout[c][d.table]
           THEN /\ dialog' = [dialog EXCEPT ![c].error = "seats"]
                /\ net' = net
           ELSE IF d.bookingTime = NoTime
           THEN /\ dialog' = [dialog EXCEPT ![c].error = "slot"]
                /\ net' = net
           ELSE IF hasNextBooking(bookings[c], d.table, dateTime) /\ ~confirmed
           THEN /\ dialog' = [dialog EXCEPT ![c].error = ""]
                /\ net' = net
           ELSE /\ req \notin net
                /\ Cardinality({ r \in net : r.type = "createBooking" /\ r.from = c })
                        < MaxInFlight
                /\ dialog' = [dialog EXCEPT ![c].error = ""]
                /\ net' = net \cup {req}
        /\ UNCHANGED <<workStarts, workEnds, tz, now, bookings, layout, server,
                       sweep, helperVars>>

\* a click on the submit button, which is disabled while availableSlots is
\* empty
SubmitButton(c, contactOk, confirmed) ==
    /\ dialog[c].open
    /\ Len(dialog[c].availableSlots) > 0
    /\ handleSubmit(c, contactOk, confirmed)

----------------------------------------------------------------------------
(* Inputs the specifications draw from *)

WorkHours ==
    { << <<10, 0>>, <<23, 0>> >>,       \* the default day shift
      << <<22, 0>>, <<2, 0>> >>,        \* overnight
      << <<18, 30>>, <<18, 30>> >>,     \* round the clock
      << <<10, 0>>, <<10, 30>> >> }     \* shorter than an hour

Nows == { LocalDate(0, 12 * 60) + 30, LocalDate(1, 20 * 60) }

Dates == {0, 1, 2}

TzOffsets == {-300, 0, 180}

InitTimes ==
    << LocalDate(1, 19 * 60), LocalDate(1, 19 * 60 + 15),
       LocalDate(2, 30), LocalDate(2, 2 * 60) >>

InitStatuses == <<PENDING, CONFIRMED, DECLINED, OCCUPIED, COMPLETED>>

\* the bookings an initial store is drawn from: every status at every time
\* for table t1, and two confirmed bookings of table t2
Candidates ==
    [ i \in 1..(Len(InitTimes) * 5) |->
        Booking(i, "t1", InitTimes[((i - 1) \div 5) + 1],
                InitStatuses[((i - 1) % 5) + 1], 2, "", 0) ]
    \o << Booking(Len(InitTimes) * 5 + 1, "t2", InitTimes[1], CONFIRMED, 2, "", 0),
          Booking(Len(InitTimes) * 5 + 2, "t2", InitTimes[3], CONFIRMED, 2, "", 0) >>

RECURSIVE IncSeqs(_, _)
IncSeqs(n, lo) ==
    IF n = 0 THEN {<<>>}
    ELSE {<<>>} \cup
         UNION { { <<i>> \o q : q \in IncSeqs(n - 1, i) } :
                 i \in (lo + 1)..Len(Candidates) }

InitStores ==
    { [k \in 1..Len(q) |-> Candidates[q[k]]] : q \in IncSeqs(MaxStoreLen, 0) }

DefaultLayout == [c \in Clients |-> [t \in Tables |-> 4]]

----------------------------------------------------------------------------
(* SpecSlots: the slot computation of one open dialog over drawn inputs *)

\* the instants of SpecSlots: those of Nows, and 19:45 of day 1, a quarter
\* of an hour before a slot of every shift that is open then
SlotNows == Nows \cup { LocalDate(1, 19 * 60 + 45) }

InitSlots ==
    /\ \E wh \in WorkHours : workStarts = wh[1] /\ workEnds = wh[2]
    /\ tz = 0
    /\ now \in SlotNows
    /\ \E st \in InitStores :
          bookings = [c \in Clients |-> IF c = "g1" THEN st ELSE <<>>]
    /\ layout = DefaultLayout
    /\ dialog = [c \in Clients |-> NoDialog]
    /\ server = <<>>
    /\ net = {}
    /\ sweep = [c \in Clients |-> 0]
    /\ interval = 30
    /\ slots = <<>>
    /\ within = <<>>
    /\ statusColor = <<>>
    /\ tableStatuses = <<>>
    /\ timeLeft = <<>>
    /\ elements = [c \in Clients |-> <<>>]

NextSlots ==
    \/ \E t \in Tables : OpenDialog("g1", t)
    \/ \E date \in Dates : SetBookingDate("g1", date)

SpecSlots == InitSlots /\ [][NextSlots]_vars

----------------------------------------------------------------------------
(* Vocabulary of the properties of the slot computation *)

\* the candidate grid of a shift: every 30 minutes from the start of the
\* shift up to one hour before its end, in minutes since midnight of the
\* selected date (past 1440 after midnight)
Grid(ws, we) ==
    LET s == ws[1] * 60 + ws[2]
        e0 == we[1] * 60 + we[2]
        e == IF e0 <= s THEN e0 + 1440 ELSE e0
    IN  { s + 30 * k : k \in 0..48 } \cap s..(e - 60)

\* minutes from midnight of date to the instant t
MinutesSince(date, t) == (t - date * 86400) \div 60

\* the clock label of a minute offset
LabelOf(off) == <<(off \div 60) % 24, off % 60>>

\* the bookings of client c's store that occupy the dialog's table inside the
\* shift window of the dialog's date
Occupying(c) ==
    LET d == dialog[c]
        s == workStarts[1] * 60 + workStarts[2]
        e0 == workEnds[1] * 60 + workEnds[2]
        e == IF e0 <= s THEN e0 + 1440 ELSE e0
    IN  { i \in 1..Len(bookings[c]) :
            /\ bookings[c][i].tableId = d.table
            /\ bookings[c][i].status \in {PENDING, CONFIRMED, OCCUPIED}
            /\ MinutesSince(d.bookingDate, bookings[c][i].dateTime) >= s
            /\ bookings[c][i].dateTime < d.bookingDate * 86400 + e * 60 }

OccupiedOffsets(c) ==
    { MinutesSince(dialog[c].bookingDate, bookings[c][i].dateTime) : i \in Occupying(c) }

\* the lead-time filter drops the candidate
TooSoon(c, cand) ==
    /\ dialog[c].bookingDate = now \div 86400
    /\ cand < (now % 86400) \div 60 + 15

Offered(c, cand) ==
    \E k \in 1..Len(dialog[c].availableSlots) :
        dialog[c].availableSlots[k] = LabelOf(cand)

----------------------------------------------------------------------------
(* C1: a candidate slot that passes the lead-time filter is withheld exactly
   when some occupying booking of the same table inside the selected date's
   shift window lies less than 60 minutes from it, before or after; a slot
   exactly 60 minutes from every occupying booking is offered. *)
C1_ConflictRule ==
    \A c \in Clients :
        dialog[c].open =>
            \A cand \in Grid(workStarts, workEnds) :
                /\ (\E b \in OccupiedOffsets(c) : cand - b < 60 /\ b - cand < 60)
                        => ~Offered(c, cand)
                /\ ( /\ ~TooSoon(c, cand)
                     /\ \A b \in OccupiedOffsets(c) : cand - b >= 60 \/ b - cand >= 60 )
                        => Offered(c, cand)

\* a dialog whose table has an occupying booking past midnight of an
\* overnight shift, with the slot 30 minutes before it withheld, the slot 30
\* minutes after it withheld, and the slot 60 minutes before it offered
C1_Witness ==
    \E c \in Clients :
        /\ dialog[c].open
        /\ \E b \in OccupiedOffsets(c) :
              /\ b >= 1440
              /\ {b - 60, b - 30, b + 30} \subseteq Grid(workStarts, workEnds)
              /\ ~Offered(c, b - 30)
              /\ ~Offered(c, b + 30)
              /\ Offered(c, b - 60)

----------------------------------------------------------------------------
(* C23: when the selected date is today every offered slot lies at least 15
   minutes after now, counted in minutes since midnight, and a slot exactly
   15 minutes ahead that no booking blocks is offered; when the selected
   date is another day, every slot of the grid that no booking blocks is
   offered, however early in the day it is *)
C23_LeadTime ==
    LET d == dialog["g1"]
        nowMins == (now % 86400) \div 60
        free(cand) == \A b \in OccupiedOffsets("g1") : cand - b >= 60 \/ b - cand >= 60
    IN  d.open =>
          \A cand \in Grid(workStarts, workEnds) :
             IF d.bookingDate = now \div 86400
             THEN /\ Offered("g1", cand) => cand >= nowMins + 15
                  /\ (cand = nowMins + 15 /\ free(cand)) => Offered("g1", cand)
             ELSE free(cand) => Offered("g1", cand)

\* a dialog for today whose first offered slot, not the first of the shift,
\* lies exactly 15 minutes after now
C23_Witness ==
    LET d == dialog["g1"]
        nowMins == (now % 86400) \div 60
    IN  /\ d.open
        /\ d.bookingDate = now \div 86400
        /\ Len(d.availableSlots) > 0
        /\ d.availableSlots[1] = LabelOf(nowMins + 15)
        /\ nowMins + 15 \in Grid(workStarts, workEnds)
        /\ nowMins + 15 > workStarts[1] * 60 + workStarts[2]

----------------------------------------------------------------------------
(* C24: every offered slot lies on the 30-minute grid that starts at
   workStarts and between the start of the shift and one hour before its
   end, where the end is workEnds of the next day when workEnds is not after
   workStarts; the list is strictly ascending in minutes from the start of
   the shift, no label occurs twice, and a shift shorter than 60 minutes
   has no slot *)
C24_GridAndOrder ==
    LET sl == dialog["g1"].availableSlots
        startMins == workStarts[1] * 60 + workStarts[2]
        e0 == workEnds[1] * 60 + workEnds[2]
        endMins == IF e0 <= startMins THEN e0 + 1440 ELSE e0
        \* minutes since midnight of the selected date of the k-th label
        off(k) == LET m == sl[k][1] * 60 + sl[k][2]
                  IN  IF m < startMins THEN m + 1440 ELSE m
    IN  dialog["g1"].open =>
          /\ \A k \in 1..Len(sl) :
                /\ off(k) >= startMins
                /\ off(k) <= endMins - 60
                /\ (off(k) - startMins) % 30 = 0
          /\ \A k \in 1..(Len(sl) - 1) : off(k) < off(k + 1)
          /\ \A j, k \in 1..Len(sl) : sl[j] = sl[k] => j = k
          /\ endMins - startMins < 60 => sl = <<>>

\* an overnight or round-the-clock shift whose list runs past midnight and
\* ends with the slot one hour before the end of the shift
C24_Witness ==
    LET sl == dialog["g1"].availableSlots
        startMins == workStarts[1] * 60 + workStarts[2]
        e0 == workEnds[1] * 60 + workEnds[2]
    IN  /\ dialog["g1"].open
        /\ e0 <= startMins
        /\ Len(sl) >= 2
        /\ sl[Len(sl)] = LabelOf(e0 + 1440 - 60)
        /\ sl[1][1] * 60 + sl[1][2] > sl[Len(sl)][1] * 60 + sl[Len(sl)][2]

----------------------------------------------------------------------------
(* C6: monotonicity. Whatever confirmed booking is added to the store's
   booking list, every slot the computation then offers is among the slots
   the dialog offers now: adding a booking never adds a slot. *)
C6_Monotonic ==
    \A c \in Clients :
        dialog[c].open =>
            \A t \in Tables, k \in 1..Len(InitTimes) :
                LET extra == Booking(99, t, InitTimes[k], CONFIRMED, 2, "", 0)
                    after == availableSlots(bookings[c] \o <<extra>>, dialog[c].table,
                                            workStarts, workEnds,
                                            dialog[c].bookingDate, now)
                IN  \A j \in 1..Len(after) :
                        \E i \in 1..Len(dialog[c].availableSlots) :
                            dialog[c].availableSlots[i] = after[j]

\* a dialog over a non-empty booking list where one more confirmed booking
\* takes slots away
C6_Witness ==
    \E c \in Clients :
        /\ dialog[c].open
        /\ Occupying(c) # {}
        /\ \E k \in 1..Len(InitTimes) :
              Len(availableSlots(
                    bookings[c] \o <<Booking(99, dialog[c].table, InitTimes[k],
                                             CONFIRMED, 2, "", 0)>>,
                    dialog[c].table, workStarts, workEnds,
                    dialog[c].bookingDate, now))
                < Len(dialog[c].availableSlots)

----------------------------------------------------------------------------
(* C7 *)

\* day shift 10:00-23:00, a date other than today, exactly one occupying
\* booking of the table on that date, at 19:00
C7Case(c) ==
    /\ dialog[c].open
    /\ workStarts = <<10, 0>>
    /\ workEnds = <<23, 0>>
    /\ dialog[c].bookingDate # now \div 86400
    /\ Cardinality(Occupying(c)) = 1
    /\ OccupiedOffsets(c) = {19 * 60}

(* C7 as stated: with one booking at 19:00 the slots 18:00, 18:30, 19:00 and
   19:30 are withheld, and 17:30 and 20:00 are offered. *)
C7_AsStated ==
    \A c \in Clients :
        C7Case(c) =>
            /\ ~Offered(c, 18 * 60)
            /\ ~Offered(c, 18 * 60 + 30)
            /\ ~Offered(c, 19 * 60)
            /\ ~Offered(c, 19 * 60 + 30)
            /\ Offered(c, 17 * 60 + 30)
            /\ Offered(c, 20 * 60)

(* C7 amended: with one booking at 19:00 exactly the slots 18:30, 19:00 and
   19:30 are withheld; 18:00 and 20:00, both 60 minutes away, are offered,
   and so are 17:30 and every other slot of the grid. *)
C7_Boundary ==
    \A c \in Clients :
        C7Case(c) =>
            \A cand \in Grid(workStarts, workEnds) :
                Offered(c, cand) <=>
                    cand \notin {18 * 60 + 30, 19 * 60, 19 * 60 + 30}

C7_Witness == \E c \in Clients : C7Case(c) /\ Offered(c, 18 * 60)

----------------------------------------------------------------------------
(* C8 *)

\* overnight shift 22:00-02:00, no bookings, today selected, now 20:00
C8Case(c) ==
    /\ dialog[c].open
    /\ workStarts = <<22, 0>>
    /\ workEnds = <<2, 0>>
    /\ bookings[c] = <<>>
    /\ dialog[c].bookingDate = now \div 86400
    /\ now % 86400 = 20 * 3600

(* C8: for the shift 22:00-02:00 with no bookings at 20:00 of the selected
   day the offered slots are exactly 22:00, 22:30, 23:00, 23:30, 00:00,
   00:30, 01:00, in that order; 01:30 is not offered. *)
C8_Overnight ==
    \A c \in Clients :
        C8Case(c) =>
            dialog[c].availableSlots =
                << <<22, 0>>, <<22, 30>>, <<23, 0>>, <<23, 30>>,
                   <<0, 0>>, <<0, 30>>, <<1, 0>> >>

C8_Witness == \E c \in Clients : C8Case(c) /\ Len(dialog[c].availableSlots) = 7

----------------------------------------------------------------------------
(* SpecSubmit: one guest picks a date and a slot and submits, in browsers of
   three time zones *)

WorkHoursSubmit ==
    { << <<10, 0>>, <<12, 0>> >>,
      << <<22, 30>>, <<1, 30>> >>,
      << <<23, 0>>, <<1, 0>> >> }

SubmitStores ==
    { <<>>,
      << Booking(1, "t1", LocalDate(2, 30), CONFIRMED, 2, "", 0) >>,
      << Booking(1, "t1", LocalDate(1, 11 * 60), PENDING, 2, "", 0) >> }

\* the guest counts typed into the dialog: within the table's four seats,
\* exactly four, and one more
GuestCounts == {2, 4, 5}

InitSubmit ==
    /\ \E wh \in WorkHoursSubmit : workStarts = wh[1] /\ workEnds = wh[2]
    /\ tz \in TzOffsets
    /\ now \in Nows
    /\ \E st \in SubmitStores :
          bookings = [c \in Clients |-> IF c = "g1" THEN st ELSE <<>>]
    /\ layout = DefaultLayout
    /\ dialog = [c \in Clients |-> NoDialog]
    /\ server = <<>>
    /\ net = {}
    /\ sweep = [c \in Clients |-> 0]
    /\ interval = 30
    /\ slots = <<>>
    /\ within = <<>>
    /\ statusColor = <<>>
    /\ tableStatuses = <<>>
    /\ timeLeft = <<>>
    /\ elements = [c \in Clients |-> <<>>]

NextSubmit ==
    \/ OpenDialog("g1", "t1")
    \/ \E date \in Dates : SetBookingDate("g1", date)
    \/ \E t \in { <<h, m>> : h \in 0..23, m \in {0, 30} } : SetBookingTime("g1", t)
    \/ \E n \in GuestCounts : SetGuestCount("g1", n)
    \/ \E contactOk, confirmed \in BOOLEAN : handleSubmit("g1", contactOk, confirmed)

SpecSubmit == InitSubmit /\ [][NextSubmit]_vars

----------------------------------------------------------------------------
(* C9: the dateTime of every submitted booking is on the day after the
   selected date when the shift is overnight and the slot's time of day is
   earlier than workStarts, and on the selected date otherwise; it lies in
   the selected date's shift window and is as many minutes after midnight of
   the selected date as the picked slot's offset. *)
C9_SubmittedDateTime ==
    [][ \A r \in net' \ net :
          r.type = "createBooking" =>
            LET d == dialog[r.from]
                s == workStarts[1] * 60 + workStarts[2]
                e0 == workEnds[1] * 60 + workEnds[2]
                e == IF e0 <= s THEN e0 + 1440 ELSE e0
                tod == d.bookingTime[1] * 60 + d.bookingTime[2]
                off == IF tod < s THEN tod + 1440 ELSE tod
            IN  /\ r.dateTime \div 86400 =
                      IF e0 <= s /\ tod < s THEN d.bookingDate + 1 ELSE d.bookingDate
                /\ r.dateTime >= d.bookingDate * 86400 + s * 60
                /\ r.dateTime < d.bookingDate * 86400 + e * 60
                /\ MinutesSince(d.bookingDate, r.dateTime) = off
      ]_vars

\* the same, for browsers whose local time is not behind UTC
C9_EastOfUtc ==
    [][ \A r \in net' \ net :
          (r.type = "createBooking" /\ tz >= 0) =>
            LET d == dialog[r.from]
                s == workStarts[1] * 60 + workStarts[2]
                e0 == workEnds[1] * 60 + workEnds[2]
                e == IF e0 <= s THEN e0 + 1440 ELSE e0
                tod == d.bookingTime[1] * 60 + d.bookingTime[2]
                off == IF tod < s THEN tod + 1440 ELSE tod
            IN  /\ r.dateTime \div 86400 =
                      IF e0 <= s /\ tod < s THEN d.bookingDate + 1 ELSE d.bookingDate
                /\ r.dateTime >= d.bookingDate * 86400 + s * 60
                /\ r.dateTime < d.bookingDate * 86400 + e * 60
                /\ MinutesSince(d.bookingDate, r.dateTime) = off
      ]_vars

----------------------------------------------------------------------------
(* C13: a submission whose guest count exceeds the seats of the table ends
   in a validation error: the step of handleSubmit sets the dialog's error,
   puts no createBooking request on the wire, and leaves the booking store
   and the server's bookings as they were *)
C13_TooManyGuests ==
    [][ \A contactOk, confirmed \in BOOLEAN :
            ( /\ handleSubmit("g1", contactOk, confirmed)
              /\ dialog["g1"].guestCount > layout["g1"][dialog["g1"].table] )
            => /\ dialog'["g1"].error \in {"contact", "seats"}
               /\ net' = net
               /\ bookings' = bookings
               /\ server' = server ]_vars

\* five guests were submitted for the four-seat table with the contact
\* fields in order, and the dialog shows the seat error with nothing sent
C13_Witness ==
    /\ dialog["g1"].open
    /\ dialog["g1"].guestCount = 5
    /\ layout["g1"][dialog["g1"].table] = 4
    /\ dialog["g1"].bookingTime # NoTime
    /\ dialog["g1"].error = "seats"
    /\ net = {}

----------------------------------------------------------------------------
(* C15: while the slot list computed for the chosen table and date is empty
   the selected time is empty and a handleSubmit step ends in a validation
   error with no createBooking request sent; and every createBooking request
   that is sent carries the dialog's selected time, which is a member of the
   slot list the dialog holds at that moment *)
C15_EmptyListRefuses ==
    [][ LET d == dialog["g1"]
        IN  /\ (d.open /\ Len(d.availableSlots) = 0)
                   => /\ d.bookingTime = NoTime
                      /\ net' = net
                      /\ \A contactOk, confirmed \in BOOLEAN :
                            handleSubmit("g1", contactOk, confirmed)
                               => dialog'["g1"].error \in {"contact", "seats", "slot"}
            /\ \A r \in net' \ net :
                   r.type = "createBooking"
                      => /\ Includes(d.availableSlots, d.bookingTime)
                         /\ r.dateTime = SubmitDateTime(d.bookingDate, d.bookingTime) ]_vars

\* the chosen date has no slot left, the form was submitted with contact
\* fields and guest count in order, and the dialog shows the missing-slot
\* error with nothing sent
C15_Witness ==
    /\ dialog["g1"].open
    /\ dialog["g1"].availableSlots = <<>>
    /\ dialog["g1"].bookingTime = NoTime
    /\ dialog["g1"].error = "slot"
    /\ net = {}

----------------------------------------------------------------------------
(* SpecHours: the time-window helpers over drawn work hours *)

ClockTimes == { <<0, 0>>, <<2, 0>>, <<10, 0>>, <<10, 30>>, <<18, 30>>,
                <<22, 0>>, <<23, 0>>, <<23, 30>> }

Intervals == {15, 20, 30, 45, 60, 100}

InitHours ==
    /\ workStarts \in ClockTimes
    /\ workEnds \in ClockTimes
    /\ interval \in Intervals
    /\ tz = 0
    /\ now \in Nows
    /\ bookings = [c \in Clients |-> <<>>]
    /\ layout = DefaultLayout
    /\ dialog = [c \in Clients |-> NoDialog]
    /\ server = <<>>
    /\ net = {}
    /\ sweep = [c \in Clients |-> 0]
    /\ slots = <<>>
    /\ within = <<>>
    /\ statusColor = <<>>
    /\ tableStatuses = <<>>
    /\ timeLeft = <<>>
    /\ elements = [c \in Clients |-> <<>>]

NextHours == GenerateSlots \/ CheckSlots

SpecHours == InitHours /\ [][NextHours]_vars

----------------------------------------------------------------------------
(* C10: for every overnight pair, workEnds = workStarts included, every
   generated label is the clock time of a minute offset in
   [workStarts, workEnds + 1440), and isWithinWorkHours is true of an instant
   at that label's hour and minute. *)
C10_OvernightAgree ==
    LET s == workStarts[1] * 60 + workStarts[2]
        e == workEnds[1] * 60 + workEnds[2]
    IN  (e <= s /\ within # <<>>) =>
            \A i \in 1..Len(slots) :
                /\ \E off \in s..(e + 1440 - 1) : LabelOf(off) = slots[i]
                /\ within[i]

\* the same for the pairs with workEnds strictly before workStarts
C10_StrictlyOvernight ==
    LET s == workStarts[1] * 60 + workStarts[2]
        e == workEnds[1] * 60 + workEnds[2]
    IN  (e < s /\ within # <<>>) =>
            \A i \in 1..Len(slots) :
                /\ \E off \in s..(e + 1440 - 1) : LabelOf(off) = slots[i]
                /\ within[i]

\* C11: for work hours with workEnds after workStarts, the generated labels
\* start at workStarts, go up in steps of the interval, and every one of them
\* is at or after workStarts and before workEnds.
C11_BeforeWorkEnds ==
    LET s == workStarts[1] * 60 + workStarts[2]
        e == workEnds[1] * 60 + workEnds[2]
    IN  (e > s /\ slots # <<>>) =>
            /\ slots[1] = workStarts
            /\ \A i \in 1..Len(slots) :
                  LET m == slots[i][1] * 60 + slots[i][2]
                  IN  /\ s <= m /\ m < e
                      /\ m = s + (i - 1) * interval

\* several labels were generated for a day shift whose length the interval
\* divides, where a loop running one step further would emit workEnds
C11_Witness ==
    LET s == workStarts[1] * 60 + workStarts[2]
        e == workEnds[1] * 60 + workEnds[2]
    IN  /\ e > s
        /\ Len(slots) >= 2
        /\ (e - s) % interval = 0

----------------------------------------------------------------------------
(* The REST server behind api.ts. Its code is not in this repository; the   *)
(* client sees it as requests that come back ok, with a body, or not ok.    *)
(* An ok status update is applied as sent, unless the booking is already    *)
(* DECLINED or COMPLETED on the server: the persistence layer leaves a      *)
(* terminal booking alone. cleanup-expired declines the PENDING bookings    *)
(* older than the confirmation window.                                      *)

\* most bookings the server's table holds
MaxBookings == 2

\* the confirmation window of a PENDING request, seconds
ExpirySecs == 180

\* the period of the DataProvider's interval, seconds
IntervalSecs == 30

Terminal == {DECLINED, COMPLETED}

Requests == {"createBooking", "updateStatus", "cleanupExpired", "getBookings",
             "updateLayout"}

\* POST /restaurants/:id/bookings answered ok
ServeCreateBooking(m) ==
    LET b == [Booking(Len(server) + 1, m.tableId, m.dateTime, PENDING,
                      m.guestCount, "", now) EXCEPT !.guestName = m.guestName]
    IN  /\ m.type = "createBooking"
        /\ Len(server) < MaxBookings
        /\ server' = Append(server, b)
        /\ net' = (net \ {m}) \cup {[type |-> "created", to |-> m.from, booking |-> b]}
        /\ UNCHANGED <<workStarts, workEnds, tz, now, bookings, layout, dialog,
                       sweep, helperVars>>

\* PUT /bookings/:id/status answered ok
ServeUpdateStatus(m) ==
    /\ m.type = "updateStatus"
    /\ server[m.id].status \notin Terminal
    /\ server' = [server EXCEPT ![m.id].status = m.status,
                                ![m.id].declineReason = m.reason]
    /\ net' = (net \ {m}) \cup
              {[type |-> "statusUpdated", to |-> m.from, id |-> m.id,
                status |-> m.status, reason |-> m.reason]}
    /\ UNCHANGED <<workStarts, workEnds, tz, now, bookings, layout, dialog,
                   sweep, helperVars>>

\* POST /bookings/cleanup-expired answered ok
ServeCleanupExpired(m) ==
    /\ m.type = "cleanupExpired"
    /\ server' = [ i \in 1..Len(server) |->
                     IF server[i].status = PENDING
                        /\ now - server[i].createdAt > ExpirySecs
                     THEN [server[i] EXCEPT !.status = DECLINED,
                                            !.declineReason = "expired"]
                     ELSE server[i] ]
    /\ net' = (net \ {m}) \cup {[type |-> "cleanedUp", to |-> m.from]}
    /\ UNCHANGED <<workStarts, workEnds, tz, now, bookings, layout, dialog,
                   sweep, helperVars>>

\* GET /restaurants/:id/bookings answered ok
ServeGetBookings(m) ==
    /\ m.type = "getBookings"
    /\ net' = (net \ {m}) \cup {[type |-> "bookingsList", to |-> m.from, list |-> server]}
    /\ UNCHANGED <<workStarts, workEnds, tz, now, bookings, layout, dialog,
                   server, sweep, helperVars>>

\* PUT /restaurants/:id/layout answered ok
ServeUpdateLayout(m) ==
    /\ m.type = "updateLayout"
    /\ net' = (net \ {m}) \cup {[type |-> "layoutUpdated", to |-> m.from,
                                 layout |-> m.layout]}
    /\ UNCHANGED <<workStarts, workEnds, tz, now, bookings, layout, dialog,
                   server, sweep, helperVars>>

\* request<T>: the response is not ok and the awaiting caller throws; only
\* handleSubmit catches the error and does something with it
ServeError(m) ==
    /\ m.type \in Requests
    /\ net' = (net \ {m}) \cup
              (IF m.type = "createBooking"
               THEN {[type |-> "createFailed", to |-> m.from]} ELSE {})
    /\ UNCHANGED <<workStarts, workEnds, tz, now, bookings, layout, dialog,
                   server, sweep, helperVars>>

----------------------------------------------------------------------------
(* DataContext.tsx: the booking store of one client *)

\* the clients whose interval is followed; the store of any other client is
\* what it loaded when it was mounted and what it changed itself, as when
\* each request of its interval fails
Pollers == {"staff"}

\* every setRestaurants makes a new restaurants array, so the effect that
\* owns the interval runs again: clearInterval, then setInterval
Rearm(c) == IF c \in Pollers THEN [sweep EXCEPT ![c] = IntervalSecs] ELSE sweep

\* addBooking after its await, then handleSubmit after its await
RecvCreated(m) ==
    /\ m.type = "created"
    /\ net' = net \ {m}
    /\ bookings' = [bookings EXCEPT ![m.to] = Append(@, m.booking)]
    /\ dialog' = [dialog EXCEPT ![m.to] = NoDialog]      \* alert, onClose
    /\ sweep' = Rearm(m.to)
    /\ UNCHANGED <<workStarts, workEnds, tz, now, layout, server, helperVars>>

\* handleSubmit with the alert and onClose after the try block
RecvCreateFailed_reportsSuccess(m) ==
    /\ m.type = "createFailed"
    /\ net' = net \ {m}
    /\ dialog' = [dialog EXCEPT ![m.to] = NoDialog]
    /\ UNCHANGED <<workStarts, workEnds, tz, now, bookings, layout, server,
                   sweep, helperVars>>

\* handleSubmit's catch
RecvCreateFailed(m) ==
    /\ m.type = "createFailed"
    /\ net' = net \ {m}
    /\ dialog' = [dialog EXCEPT ![m.to] =
                    IF @.open THEN [@ EXCEPT !.error = "request"] ELSE @]
    /\ UNCHANGED <<workStarts, workEnds, tz, now, bookings, layout, server,
                   sweep, helperVars>>

\* updateBookingStatus's map without the comparison of ids
setStatus_everyBooking(bs, bookingId, status, reason) ==
    [ i \in 1..Len(bs) |->
        [bs[i] EXCEPT !.status = status,
                      !.declineReason = IF status = DECLINED THEN reason ELSE ""] ]

\* updateBookingStatus's map over the bookings of the restaurant
setStatus(bs, bookingId, status, reason) ==
    [ i \in 1..Len(bs) |->
        IF bs[i].id = bookingId
        THEN [bs[i] EXCEPT !.status = status,
                           !.declineReason = IF status = DECLINED THEN reason ELSE ""]
        ELSE bs[i] ]

\* updateBookingStatus after its await
RecvStatusUpdated(m) ==
    LET bs == setStatus(bookings[m.to], m.id, m.status, m.reason)
    IN  /\ m.type = "statusUpdated"
        /\ net' = net \ {m}
        /\ bookings' = [bookings EXCEPT ![m.to] = bs]
        /\ dialog' = [dialog EXCEPT ![m.to] = Rerender(m.to, bs)]
        /\ sweep' = Rearm(m.to)
        /\ UNCHANGED <<workStarts, workEnds, tz, now, layout, server, helperVars>>

\* requests and responses of client c's interval callbacks in flight
PollsInFlight(c) ==
    { m \in net :
        \/ m.type \in {"cleanupExpired", "getBookings"} /\ m.from = c
        \/ m.type \in {"cleanedUp", "bookingsList"} /\ m.to = c }

\* the interval comes due: the callback starts with api.bookings.cleanupExpired()
SweepFire(c) ==
    /\ c \in Pollers
    /\ sweep[c] = 0                  \* the interval is due
    /\ Cardinality(PollsInFlight(c)) < MaxInFlight
    /\ net' = net \cup {[type |-> "cleanupExpired", from |-> c]}
    /\ sweep' = [sweep EXCEPT ![c] = IntervalSecs]
    /\ UNCHANGED <<workStarts, workEnds, tz, now, bookings, layout, dialog,
                   server, helperVars>>

\* the callback after its first await: loadBookings(r.id) sends its request
RecvCleanedUp(m) ==
    /\ m.type = "cleanedUp"
    /\ net' = (net \ {m}) \cup {[type |-> "getBookings", from |-> m.to]}
    /\ UNCHANGED <<workStarts, workEnds, tz, now, bookings, layout, dialog,
                   server, sweep, helperVars>>

\* loadBookings after its await: the store's list is replaced by the response
RecvBookings(m) ==
    /\ m.type = "bookingsList"
    /\ net' = net \ {m}
    /\ bookings' = [bookings EXCEPT ![m.to] = m.list]
    /\ dialog' = [dialog EXCEPT ![m.to] = Rerender(m.to, m.list)]
    /\ sweep' = Rearm(m.to)
    /\ UNCHANGED <<workStarts, workEnds, tz, now, layout, server, helperVars>>

----------------------------------------------------------------------------
(* AdminView.tsx: the staff actions *)

pendingBookings(bs) == { i \in 1..Len(bs) : bs[i].status = PENDING }

\* mutation: the sort ascending, so that the earliest due booking comes first
activeBooking_earliest(bs, tableId, nowv) ==
    LET due == { i \in 1..Len(bs) :
                    /\ bs[i].tableId = tableId
                    /\ bs[i].status \in {CONFIRMED, OCCUPIED}
                    /\ bs[i].dateTime <= nowv }
    IN  { i \in due : \A j \in due :
            \/ bs[j].dateTime > bs[i].dateTime
            \/ bs[j].dateTime = bs[i].dateTime /\ i <= j }

\* mutation: a due PENDING request counts as seated too
activeBooking_anyOccupying(bs, tableId, nowv) ==
    LET due == { i \in 1..Len(bs) :
                    /\ bs[i].tableId = tableId
                    /\ bs[i].status \in OccupyingStatuses
                    /\ bs[i].dateTime <= nowv }
    IN  { i \in due : \A j \in due :
            \/ bs[j].dateTime < bs[i].dateTime
            \/ bs[j].dateTime = bs[i].dateTime /\ i <= j }

\* the CONFIRMED or OCCUPIED booking of the table that is due, latest first;
\* the sort is stable, so of two equal times the earlier in the store wins
activeBooking(bs, tableId, nowv) ==
    LET due == { i \in 1..Len(bs) :
                    /\ bs[i].tableId = tableId
                    /\ bs[i].status \in {CONFIRMED, OCCUPIED}
                    /\ bs[i].dateTime <= nowv }
    IN  { i \in due : \A j \in due :
            \/ bs[j].dateTime < bs[i].dateTime
            \/ bs[j].dateTime = bs[i].dateTime /\ i <= j }

futureBookings(bs, nowv) ==
    { i \in 1..Len(bs) : bs[i].status = CONFIRMED /\ bs[i].dateTime > nowv }

UpdateStatusRequest(c, id, status, reason) ==
    [type |-> "updateStatus", from |-> c, id |-> id, status |-> status,
     reason |-> reason]

StatusInFlight(c) ==
    { m \in net :
        \/ m.type = "updateStatus" /\ m.from = c
        \/ m.type = "statusUpdated" /\ m.to = c }

\* updateBookingStatus up to its await
SendStatus(c, id, status, reason) ==
    LET req == UpdateStatusRequest(c, id, status, reason)
    IN  /\ req \notin net
        /\ Cardinality(StatusInFlight(c)) < MaxInFlight
        /\ net' = net \cup {req}
        /\ UNCHANGED <<workStarts, workEnds, tz, now, bookings, layout, dialog,
                       server, sweep, helperVars>>

\* the confirm button of a request card
Confirm(c, i) ==
    /\ i \in pendingBookings(bookings[c])
    /\ SendStatus(c, bookings[c][i].id, CONFIRMED, "")

\* the characters of the reason texts that occur
Chars(str) ==
    CASE str = "" -> <<>>
      [] str = " " -> <<" ">>
      [] str = "  " -> <<" ", " ">>
      [] str = "no seats" -> <<"n", "o", " ", "s", "e", "a", "t", "s">>
      [] str = "expired" -> <<"e", "x", "p", "i", "r", "e", "d">>
      [] str = "cancelled by staff" ->
            <<"c", "a", "n", "c", "e", "l", "l", "e", "d", " ", "b", "y", " ",
              "s", "t", "a", "f", "f">>

WhiteSpace == {" "}

\* String.prototype.trim on a sequence of characters
RECURSIVE trim(_)
trim(chars) ==
    IF chars = <<>> THEN <<>>
    ELSE IF Head(chars) \in WhiteSpace THEN trim(Tail(chars))
    ELSE IF chars[Len(chars)] \in WhiteSpace
         THEN trim(SubSeq(chars, 1, Len(chars) - 1))
    ELSE chars

\* handleDecline with the reason compared with '' and not trimmed
Decline_noTrim(c, i, reason) ==
    /\ i \in pendingBookings(bookings[c])
    /\ IF reason = "" THEN UNCHANGED vars
       ELSE SendStatus(c, bookings[c][i].id, DECLINED, reason)

\* handleDecline of a request card; a reason that trims to nothing only
\* raises an alert
Decline(c, i, reason) ==
    /\ i \in pendingBookings(bookings[c])
    /\ IF trim(Chars(reason)) = <<>> THEN UNCHANGED vars
       ELSE SendStatus(c, bookings[c][i].id, DECLINED, reason)

\* the cancel button of the future bookings list
Cancel(c, i) ==
    /\ i \in futureBookings(bookings[c], now)
    /\ SendStatus(c, bookings[c][i].id, DECLINED, "cancelled by staff")

\* the mark-free button of the occupied tables list
MarkFree(c, tableId) ==
    \E i \in activeBooking(bookings[c], tableId, now) :
        SendStatus(c, bookings[c][i].id, COMPLETED, "")

----------------------------------------------------------------------------
(* AdminView.tsx: the colour of a table on the staff floor map *)

\* the due CONFIRMED or OCCUPIED bookings of the table, latest first
currentBooking(bs, tableId, nowv) ==
    LET due == { i \in 1..Len(bs) :
                    /\ bs[i].tableId = tableId
                    /\ bs[i].status \in {CONFIRMED, OCCUPIED}
                    /\ bs[i].dateTime <= nowv }
    IN  { i \in due : \A j \in due :
            \/ bs[j].dateTime < bs[i].dateTime
            \/ bs[j].dateTime = bs[i].dateTime /\ i <= j }

isPending(bs, tableId, nowv) ==
    \E i \in 1..Len(bs) :
        /\ bs[i].tableId = tableId
        /\ bs[i].status = PENDING
        /\ bs[i].dateTime <= nowv

\* mutation: the bookings ahead are sorted latest first
nextBooking_latest(bs, tableId, nowv) ==
    LET ahead == { i \in 1..Len(bs) :
                    /\ bs[i].tableId = tableId
                    /\ bs[i].status \in {CONFIRMED, OCCUPIED, PENDING}
                    /\ bs[i].dateTime > nowv }
    IN  { i \in ahead : \A j \in ahead :
            \/ bs[j].dateTime < bs[i].dateTime
            \/ bs[j].dateTime = bs[i].dateTime /\ i <= j }

\* the bookings of the table ahead of now, earliest first
nextBooking(bs, tableId, nowv) ==
    LET ahead == { i \in 1..Len(bs) :
                    /\ bs[i].tableId = tableId
                    /\ bs[i].status \in {CONFIRMED, OCCUPIED, PENDING}
                    /\ bs[i].dateTime > nowv }
    IN  { i \in ahead : \A j \in ahead :
            \/ bs[i].dateTime < bs[j].dateTime
            \/ bs[i].dateTime = bs[j].dateTime /\ i <= j }

\* mutation: a seated booking wins over a due request
floorStatusColor_redWins(bs, tableId, nowv) ==
    LET current == currentBooking(bs, tableId, nowv)
        pending == isPending(bs, tableId, nowv)
        next == nextBooking(bs, tableId, nowv)
    IN  IF current # {} THEN "red"
        ELSE IF pending THEN "yellow"
        ELSE IF \E i \in next : bs[i].dateTime - nowv < 60 * 60 THEN "red"
        ELSE "green"

\* statusColor of one table: bg-brand-green, bg-brand-red or bg-brand-yellow
floorStatusColor(bs, tableId, nowv) ==
    LET current == currentBooking(bs, tableId, nowv)
        pending == isPending(bs, tableId, nowv)
        next == nextBooking(bs, tableId, nowv)
        c1 == IF current # {} THEN "red" ELSE "green"
        c2 == IF pending THEN "yellow" ELSE c1
    IN  IF current = {} /\ ~pending
        THEN IF \E i \in next : bs[i].dateTime - nowv < 60 * 60 THEN "red" ELSE c2
        ELSE c2

\* one render of the floor map in client c
RenderFloorMap(c) ==
    /\ statusColor' = [t \in DOMAIN layout[c] |-> floorStatusColor(bookings[c], t, now)]
    /\ UNCHANGED <<workStarts, workEnds, tz, now, bookings, layout, dialog,
                   server, net, sweep, interval, slots, within, tableStatuses,
                   timeLeft, elements>>

----------------------------------------------------------------------------
(* UserView.tsx: tableStatuses *)

tableStatus(bs, tableId, nowv) ==
    LET activePending ==
            \E i \in 1..Len(bs) :
                bs[i].tableId = tableId /\ bs[i].status = PENDING /\ bs[i].dateTime > nowv
        activeConfirmed ==
            \E i \in 1..Len(bs) :
                /\ bs[i].tableId = tableId
                /\ bs[i].status \in {CONFIRMED, OCCUPIED}
                /\ bs[i].dateTime > nowv
    IN  IF activePending THEN "pending"
        ELSE IF activeConfirmed THEN "confirmed"
        ELSE "available"

\* the tableStatuses memo of client c
RenderUserView(c) ==
    /\ tableStatuses' = [t \in DOMAIN layout[c] |-> tableStatus(bookings[c], t, now)]
    /\ UNCHANGED <<workStarts, workEnds, tz, now, bookings, layout, dialog,
                   server, net, sweep, interval, slots, within, statusColor,
                   timeLeft, elements>>

----------------------------------------------------------------------------
(* ConstructorView.tsx: the owner's floor-plan editor *)

\* the effect that copies restaurant.layout into the editor once
\* (isInitialized: elements[c] is no longer empty)
InitConstructor(c) ==
    /\ elements[c] = <<>>
    /\ elements' = [elements EXCEPT ![c] = layout[c]]
    /\ UNCHANGED <<workStarts, workEnds, tz, now, bookings, layout, dialog,
                   server, net, sweep, interval, slots, within, viewVars>>

\* the seats slider of the selected table:
\* updateElement(id, { seats: parseInt(e.target.value) })
updateElement(c, t, seats) ==
    /\ elements[c] # <<>>
    /\ seats # elements[c][t]
    /\ elements' = [elements EXCEPT ![c][t] = seats]
    /\ UNCHANGED <<workStarts, workEnds, tz, now, bookings, layout, dialog,
                   server, net, sweep, interval, slots, within, viewVars>>

\* handleSaveLayout, updateLayout up to its await (the alert follows at once)
handleSaveLayout(c) ==
    LET req == [type |-> "updateLayout", from |-> c, layout |-> elements[c]]
    IN  /\ elements[c] # <<>>
        /\ Cardinality({ r \in net : r.type = "updateLayout" /\ r.from = c })
                < MaxInFlight
        /\ net' = net \cup {req}
        /\ UNCHANGED <<workStarts, workEnds, tz, now, bookings, layout, dialog,
                       server, sweep, helperVars>>

\* updateLayout after its await: the store takes the layout that was saved
RecvLayoutUpdated(m) ==
    /\ m.type = "layoutUpdated"
    /\ net' = net \ {m}
    /\ layout' = [layout EXCEPT ![m.to] = m.layout]
    /\ sweep' = Rearm(m.to)
    /\ UNCHANGED <<workStarts, workEnds, tz, now, bookings, dialog, server,
                   helperVars>>

----------------------------------------------------------------------------
(* The wall clock *)

Max(a, b) == IF a >= b THEN a ELSE b

\* d seconds pass; an interval that came due on the way and did not run is
\* one whose callback's request failed
Tick(d) ==
    /\ now' = now + d
    /\ sweep' = [c \in Clients |-> IF c \in Pollers THEN Max(0, sweep[c] - d)
                                   ELSE sweep[c]]
    /\ timeLeft' = IF timeLeft = <<>> THEN <<>>
                   ELSE [i \in DOMAIN timeLeft |->
                            [timeLeft[i] EXCEPT !.wait = Max(0, @ - d)]]
    /\ UNCHANGED <<workStarts, workEnds, tz, bookings, layout, dialog, server,
                   net, interval, slots, within, statusColor, tableStatuses,
                   elements>>

----------------------------------------------------------------------------
(* AdminView.tsx: CountdownTimer of a request card *)

\* the period of the countdown's interval, seconds
TimerSecs == 1

\* mutation: the remaining time without Math.max
updateTimer_noFloor(createdAt, nowv) ==
    LET elapsed == nowv - createdAt
        remaining == ExpirySecs - elapsed
    IN  remaining

\* the value updateTimer hands to setTimeLeft
updateTimer(createdAt, nowv) ==
    LET elapsed == nowv - createdAt
        remaining == ExpirySecs - elapsed
    IN  Max(0, remaining)

\* the text of the countdown: minutes and seconds
CountdownText(t) == << t \div 60, t % 60 >>

\* a render of the request list: a card whose booking is no longer PENDING
\* is unmounted, a new card's timer is mounted, its effect runs updateTimer
\* and arms the interval
RenderRequestCards(c) ==
    LET bs == bookings[c]
        cards == [ i \in pendingBookings(bs) |->
                     IF i \in DOMAIN timeLeft THEN timeLeft[i]
                     ELSE [timeLeft |-> updateTimer(bs[i].createdAt, now),
                           wait |-> TimerSecs] ]
    IN  /\ cards # timeLeft
        /\ timeLeft' = IF pendingBookings(bs) = {} THEN <<>> ELSE cards
        /\ UNCHANGED <<workStarts, workEnds, tz, now, bookings, layout, dialog,
                       server, net, sweep, interval, slots, within, statusColor,
                       tableStatuses, elements>>

\* the interval callback of the timer of card i
TimerFire(c, i) ==
    /\ i \in DOMAIN timeLeft
    /\ timeLeft[i].wait = 0
    /\ timeLeft' = [timeLeft EXCEPT ![i] =
            [timeLeft |-> updateTimer(bookings[c][i].createdAt, now),
             wait |-> TimerSecs]]
    /\ UNCHANGED <<workStarts, workEnds, tz, now, bookings, layout, dialog,
                   server, net, sweep, interval, slots, within, statusColor,
                   tableStatuses, elements>>

----------------------------------------------------------------------------
(* Spec: one guest and the staff of one restaurant over one morning *)

\* the instants the wall clock of Spec steps through: the opening, one and
\* two minutes later, inside the confirmation window of a request made at
\* the opening, and the first slot a guest can book, when that window is over
Timeline ==
    << LocalDate(1, 10 * 60), LocalDate(1, 10 * 60) + 60,
       LocalDate(1, 10 * 60) + 120, LocalDate(1, 10 * 60 + 30) >>

\* what the server holds when the morning starts: nothing, or a walk-in
\* seated at table t1 at the opening
\* the reasons staff type into a request card: nothing, blanks, a text
DeclineReasons == {"", " ", "  ", "no seats"}

InitServers ==
    { <<>>, << Booking(1, "t1", LocalDate(1, 10 * 60), OCCUPIED, 2, "", 0) >> }

Init ==
    /\ workStarts = <<10, 0>>
    /\ workEnds = <<12, 0>>
    /\ tz = 180
    /\ now = Timeline[1]
    /\ server \in InitServers
    /\ bookings = [c \in Clients |-> server]      \* loadRestaurants has run
    /\ layout = DefaultLayout
    /\ dialog = [c \in Clients |-> NoDialog]
    /\ net = {}
    /\ sweep = [c \in Clients |-> IntervalSecs]
    /\ interval = 30
    /\ slots = <<>>
    /\ within = <<>>
    /\ statusColor = <<>>
    /\ tableStatuses = <<>>
    /\ timeLeft = <<>>
    /\ elements = [c \in Clients |-> <<>>]

Next ==
    \/ OpenDialog("g1", "t1")
    \/ \E confirmed \in BOOLEAN : SubmitButton("g1", TRUE, confirmed)
    \/ \E m \in net : ServeCreateBooking(m)
    \/ \E m \in net : ServeUpdateStatus(m)
    \/ \E m \in net : ServeCleanupExpired(m)
    \/ \E m \in net : ServeGetBookings(m)
    \/ \E m \in net : ServeError(m)
    \/ \E m \in net : RecvCreated(m)
    \/ \E m \in net : RecvCreateFailed(m)
    \/ \E m \in net : RecvStatusUpdated(m)
    \/ \E m \in net : RecvCleanedUp(m)
    \/ \E m \in net : RecvBookings(m)
    \/ SweepFire("staff")
    \/ \E i \in 1..MaxBookings : Confirm("staff", i)
    \/ \E i \in 1..MaxBookings, reason \in DeclineReasons : Decline("staff", i, reason)
    \/ \E i \in 1..MaxBookings : Cancel("staff", i)
    \/ \E t \in Tables : MarkFree("staff", t)
    \/ \E k \in 1..(Len(Timeline) - 1) :
          now = Timeline[k] /\ Tick(Timeline[k + 1] - Timeline[k])

Spec == Init /\ [][Next]_vars

----------------------------------------------------------------------------
(* SpecRace: two guests book table t1 while the staff watch the requests *)

Guests == {"g1", "g2"}

\* how many intervals' worth of time SpecRace lets pass
MaxPeriods == 1

InitRace ==
    /\ workStarts = <<10, 0>>
    /\ workEnds = <<12, 0>>
    /\ tz = 180
    /\ now = LocalDate(1, 10 * 60)
    /\ server = <<>>
    /\ bookings = [c \in Clients |-> <<>>]
    /\ layout = DefaultLayout
    /\ dialog = [c \in Clients |-> NoDialog]
    /\ net = {}
    /\ sweep = [c \in Clients |-> IntervalSecs]
    /\ interval = 30
    /\ slots = <<>>
    /\ within = <<>>
    /\ statusColor = <<>>
    /\ tableStatuses = <<>>
    /\ timeLeft = <<>>
    /\ elements = [c \in Clients |-> <<>>]

NextRace ==
    \/ \E c \in Guests : OpenDialog(c, "t1")
    \/ \E c \in Guests, t \in {<<10, 30>>, <<11, 0>>} : SetBookingTime(c, t)
    \/ \E c \in Guests : SubmitButton(c, TRUE, TRUE)
    \/ \E m \in net : ServeCreateBooking(m)
    \/ \E m \in net : RecvCreated(m)
    \/ SweepFire("staff")
    \/ \E m \in net : ServeCleanupExpired(m)
    \/ \E m \in net : RecvCleanedUp(m)
    \/ \E m \in net : ServeGetBookings(m)
    \/ \E m \in net : RecvBookings(m)
    \/ \E i \in 1..MaxBookings : Confirm("staff", i)
    \/ \E m \in net : ServeUpdateStatus(m)
    \/ \E m \in net : RecvStatusUpdated(m)
    \/ now < LocalDate(1, 10 * 60) + MaxPeriods * IntervalSecs /\ Tick(IntervalSecs)

SpecRace == InitRace /\ [][NextRace]_vars

----------------------------------------------------------------------------
(* SpecSweep: one request and the staff's interval, second by second. Every *)
(* request is answered ok and within the second it was sent in, and each    *)
(* interval runs at the second it comes due.                                *)

\* the guest submits within this many seconds of the start
SubmitWindow == 30

SweepStart == LocalDate(1, 10 * 60)

\* the clock stops once a request made in the window is a period past expiry
SweepEnd == SweepStart + SubmitWindow + ExpirySecs + IntervalSecs + 1

InitSweep ==
    /\ workStarts = <<10, 0>>
    /\ workEnds = <<12, 0>>
    /\ tz = 180
    /\ now = SweepStart
    /\ server = <<>>
    /\ bookings = [c \in Clients |-> <<>>]
    /\ layout = DefaultLayout
    /\ dialog = [c \in Clients |-> NoDialog]
    /\ net = {}
    /\ sweep = [c \in Clients |-> IntervalSecs]
    /\ interval = 30
    /\ slots = <<>>
    /\ within = <<>>
    /\ statusColor = <<>>
    /\ tableStatuses = <<>>
    /\ timeLeft = <<>>
    /\ elements = [c \in Clients |-> <<>>]

NextSweep ==
    \/ OpenDialog("g1", "t1")
    \/ now <= SweepStart + SubmitWindow /\ SubmitButton("g1", TRUE, TRUE)
    \/ \E m \in net : ServeCreateBooking(m)
    \/ \E m \in net : RecvCreated(m)
    \/ SweepFire("staff")
    \/ \E m \in net : ServeCleanupExpired(m)
    \/ \E m \in net : RecvCleanedUp(m)
    \/ \E m \in net : ServeGetBookings(m)
    \/ \E m \in net : RecvBookings(m)
    \/ /\ now < SweepEnd
       /\ net = {}
       /\ \A c \in Pollers : sweep[c] > 0
       /\ Tick(1)

SpecSweep == InitSweep /\ [][NextSweep]_vars

----------------------------------------------------------------------------
(* Properties of the booking lifecycle *)

\* two bookings the server holds for one table and one instant, requested
\* by different guests
Rivals(i, j) ==
    /\ i # j
    /\ server[i].tableId = server[j].tableId
    /\ server[i].dateTime = server[j].dateTime
    /\ server[i].guestName # server[j].guestName

\* C2: of two requests that two guests made for the same table and the same
\* slot, staff confirm at most one: the two bookings are never both CONFIRMED.
C2_AtMostOneConfirmed ==
    \A i, j \in 1..Len(server) :
        Rivals(i, j) => ~(server[i].status = CONFIRMED /\ server[j].status = CONFIRMED)

\* the status client c's store shows for the booking with this id
StatusShown(c, id) ==
    { bookings[c][i].status : i \in { k \in 1..Len(bookings[c]) : bookings[c][k].id = id } }

\* the changes of status the staff ask for in this step, each as the pair
\* of the status their store shows and the status they ask for
StaffEdges ==
    UNION { { <<from, m.status>> : from \in StatusShown("staff", m.id) } :
            m \in { r \in net' \ net : r.type = "updateStatus" /\ r.from = "staff" } }

LifecycleEdges ==
    { <<PENDING, CONFIRMED>>, <<PENDING, DECLINED>>, <<CONFIRMED, OCCUPIED>>,
      <<CONFIRMED, DECLINED>>, <<OCCUPIED, COMPLETED>> }

\* C3 as stated: every change of status a staff action asks for is one of the
\* edges PENDING->CONFIRMED, PENDING->DECLINED, CONFIRMED->OCCUPIED,
\* CONFIRMED->DECLINED, OCCUPIED->COMPLETED.
C3_AsStated == [][StaffEdges \subseteq LifecycleEdges]_vars

\* C3: every change of status a staff action asks for, taken from the status
\* the staff's store shows when the action is taken, is one of the edges
\* PENDING->CONFIRMED, PENDING->DECLINED, CONFIRMED->OCCUPIED,
\* CONFIRMED->DECLINED, OCCUPIED->COMPLETED or CONFIRMED->COMPLETED.
C3_StaffEdges ==
    [][StaffEdges \subseteq LifecycleEdges \cup {<<CONFIRMED, COMPLETED>>}]_vars

\* mark-free has been pressed for a booking the staff's store shows CONFIRMED
C3_Witness ==
    \E m \in net :
        /\ m.type = "updateStatus"
        /\ m.status = COMPLETED
        /\ CONFIRMED \in StatusShown("staff", m.id)

\* C4: once a client's store shows a booking DECLINED or COMPLETED, no later
\* step changes the status the store shows for that booking.
C4_TerminalStays ==
    [][ \A c \in Clients : \A i \in 1..Len(bookings[c]) :
          bookings[c][i].status \in Terminal =>
            \A j \in 1..Len(bookings'[c]) :
                bookings'[c][j].id = bookings[c][i].id =>
                    bookings'[c][j].status = bookings[c][i].status ]_vars

\* C5: a PENDING request that staff do not act on is no longer shown as
\* PENDING to staff once 181 seconds have passed since it was created.
C5_ExpiredByDeadline ==
    \A i \in 1..Len(bookings["staff"]) :
        bookings["staff"][i].status = PENDING =>
            now - bookings["staff"][i].createdAt < ExpirySecs + 1

\* with every request answered at once, a request is shown as PENDING to
\* staff for less than the confirmation window and one period of the interval
C5_WithinOnePeriod ==
    \A i \in 1..Len(bookings["staff"]) :
        bookings["staff"][i].status = PENDING =>
            now - bookings["staff"][i].createdAt < ExpirySecs + IntervalSecs + 1

----------------------------------------------------------------------------
(* C16: a decline with an empty or whitespace-only reason changes no booking
   and sends no status update; every DECLINED status update staff send, and
   every DECLINED booking in the staff's store and on the server, carries a
   reason that is not empty *)
C16_DeclineNeedsReason ==
    [][ /\ \A i \in 1..MaxBookings, reason \in {"", " ", "  "} :
              Decline("staff", i, reason)
                 => UNCHANGED <<bookings, server, net>>
        /\ \A r \in net' :
              (r.type = "updateStatus" /\ r.status = DECLINED)
                 => trim(Chars(r.reason)) # <<>>
        /\ \A i \in 1..Len(bookings'["staff"]) :
              bookings'["staff"][i].status = DECLINED
                 => bookings'["staff"][i].declineReason # ""
        /\ \A i \in 1..Len(server') :
              server'[i].status = DECLINED => server'[i].declineReason # "" ]_vars

\* staff declined a pending request with a typed reason and their store
\* shows the booking DECLINED with that reason
C16_Witness ==
    \E i \in 1..Len(bookings["staff"]) :
        /\ bookings["staff"][i].status = DECLINED
        /\ bookings["staff"][i].declineReason = "no seats"
        /\ server[i].declineReason = "no seats"

----------------------------------------------------------------------------
(* SpecClassify: the two views of one store at one instant *)

ClassifyNow == LocalDate(1, 12 * 60)

\* an hour ago, now, a second ahead, 45 minutes ahead, either side of the
\* look-ahead's end, two hours ahead
ClassifyTimes ==
    { ClassifyNow - 3600, ClassifyNow, ClassifyNow + 1, ClassifyNow + 2700,
      ClassifyNow + 3599, ClassifyNow + 3600, ClassifyNow + 7200 }

ClassifyCandidates ==
    { Booking(1, "t1", t, st, 2, "", 0) : t \in ClassifyTimes, st \in BookingStatus }
    \cup { Booking(2, "t2", ClassifyNow, CONFIRMED, 2, "", 0),
           Booking(2, "t2", ClassifyNow + 2700, PENDING, 2, "", 0) }

ClassifyStores == UNION { [1..k -> ClassifyCandidates] : k \in 0..MaxStoreLen }

InitClassify ==
    /\ workStarts = <<10, 0>>
    /\ workEnds = <<23, 0>>
    /\ tz = 0
    /\ now = ClassifyNow
    /\ \E st \in ClassifyStores : bookings = [c \in Clients |-> st]
    /\ layout = DefaultLayout
    /\ dialog = [c \in Clients |-> NoDialog]
    /\ server = <<>>
    /\ net = {}
    /\ sweep = [c \in Clients |-> 0]
    /\ interval = 30
    /\ slots = <<>>
    /\ within = <<>>
    /\ statusColor = <<>>
    /\ tableStatuses = <<>>
    /\ timeLeft = <<>>
    /\ elements = [c \in Clients |-> <<>>]

NextClassify == RenderFloorMap("staff") \/ RenderUserView("g1")

SpecClassify == InitClassify /\ [][NextClassify]_vars

----------------------------------------------------------------------------
(* Vocabulary of the properties of the table status *)

\* the class a floor-map colour stands for
ClassOf(color) ==
    IF color = "red" THEN "confirmed"
    ELSE IF color = "yellow" THEN "pending"
    ELSE "available"

StaffBookings(t) ==
    { bookings["staff"][i] : i \in { k \in 1..Len(bookings["staff"]) :
                                        bookings["staff"][k].tableId = t } }

DueWith(t, statuses) ==
    { b \in StaffBookings(t) : b.status \in statuses /\ b.dateTime <= now }

\* start times of the bookings ahead that hold the table
AheadTimes(t) ==
    { b.dateTime : b \in { x \in StaffBookings(t) :
                            x.status \in {CONFIRMED, OCCUPIED, PENDING} /\ x.dateTime > now } }

\* the earliest booking ahead starts less than 60 minutes from now
Imminent(t) ==
    /\ AheadTimes(t) # {}
    /\ \E e \in AheadTimes(t) :
          /\ \A x \in AheadTimes(t) : e <= x
          /\ e - now < 3600

\* C12: for a table with no due PENDING, CONFIRMED or OCCUPIED booking, the
\* floor map shows confirmed exactly when the earliest booking ahead that is
\* CONFIRMED, OCCUPIED or PENDING starts less than 60 minutes after now, and
\* available otherwise.
C12_LookAhead ==
    statusColor # <<>> =>
        \A t \in Tables :
            DueWith(t, {PENDING, CONFIRMED, OCCUPIED}) = {} =>
                ClassOf(statusColor[t]) =
                    IF Imminent(t) THEN "confirmed" ELSE "available"

\* a table with nothing due, a CONFIRMED booking 45 minutes ahead and a later
\* one two hours ahead, shown as confirmed
C12_Witness ==
    /\ statusColor # <<>>
    /\ DueWith("t1", {PENDING, CONFIRMED, OCCUPIED}) = {}
    /\ \E b \in StaffBookings("t1") : b.status = CONFIRMED /\ b.dateTime = now + 2700
    /\ \E b \in StaffBookings("t1") : b.status = CONFIRMED /\ b.dateTime = now + 7200
    /\ statusColor["t1"] = "red"

\* C19: the guest view and the staff floor map give every table the same
\* class among available, pending and confirmed.
C19_SameClassifier ==
    (statusColor # <<>> /\ tableStatuses # <<>>) =>
        \A t \in Tables : ClassOf(statusColor[t]) = tableStatuses[t]

\* C20: a due PENDING booking makes the table pending even when a CONFIRMED
\* or OCCUPIED booking is due too; otherwise a due CONFIRMED or OCCUPIED
\* booking makes it confirmed; only otherwise does the look-ahead decide.
C20_Precedence ==
    statusColor # <<>> =>
        \A t \in Tables :
            ClassOf(statusColor[t]) =
                IF DueWith(t, {PENDING}) # {} THEN "pending"
                ELSE IF DueWith(t, {CONFIRMED, OCCUPIED}) # {} THEN "confirmed"
                ELSE IF Imminent(t) THEN "confirmed"
                ELSE "available"

\* a table with a due PENDING request and a due CONFIRMED booking, shown as
\* pending
C20_Witness ==
    /\ statusColor # <<>>
    /\ DueWith("t1", {PENDING}) # {}
    /\ DueWith("t1", {CONFIRMED}) # {}
    /\ statusColor["t1"] = "yellow"

----------------------------------------------------------------------------
(* SpecLayout: a guest books a table while the owner edits and saves the
   floor plan *)

\* the seat counts the owner's slider is moved to
SeatChoices == {2, 4}

\* the server's bookings when the clients load them: none, or a party of
\* four confirmed for the four-seat table t1
LayoutServers ==
    { <<>>,
      << Booking(1, "t1", LocalDate(1, 11 * 60 + 30), CONFIRMED, 4, "", 0) >> }

InitLayout ==
    /\ workStarts = <<10, 0>>
    /\ workEnds = <<12, 0>>
    /\ tz = 180
    /\ now = LocalDate(1, 10 * 60)
    /\ server \in LayoutServers
    /\ bookings = [c \in Clients |-> server]
    /\ layout = DefaultLayout
    /\ dialog = [c \in Clients |-> NoDialog]
    /\ net = {}
    /\ sweep = [c \in Clients |-> IntervalSecs]
    /\ interval = 30
    /\ slots = <<>>
    /\ within = <<>>
    /\ statusColor = <<>>
    /\ tableStatuses = <<>>
    /\ timeLeft = <<>>
    /\ elements = [c \in Clients |-> <<>>]

NextLayout ==
    \/ OpenDialog("g1", "t1")
    \/ \E n \in GuestCounts : SetGuestCount("g1", n)
    \/ SubmitButton("g1", TRUE, TRUE)
    \/ \E m \in net : \/ ServeCreateBooking(m)
                       \/ ServeUpdateLayout(m)
                       \/ ServeError(m)
                       \/ RecvCreated(m)
                       \/ RecvCreateFailed(m)
                       \/ RecvLayoutUpdated(m)
    \/ InitConstructor("owner")
    \/ \E n \in SeatChoices : updateElement("owner", "t1", n)
    \/ handleSaveLayout("owner")

SpecLayout == InitLayout /\ [][NextLayout]_vars

----------------------------------------------------------------------------
(* C14: in every store, every booking's guestCount is at most the seats of
   the table it references, whatever bookings were submitted and whatever
   floor plans the owner saved *)
C14_SeatsBoundGuests ==
    \A c \in Clients : \A i \in 1..Len(bookings[c]) :
        bookings[c][i].guestCount <= layout[c][bookings[c][i].tableId]

----------------------------------------------------------------------------
(* SpecCountdown: the staff's request cards count down second by second,
   while staff decline some of the requests *)

\* seconds the clock of SpecCountdown runs
CountdownSpan == 12

CountdownStart == LocalDate(1, 10 * 60)

\* when the requests were created: now, 170, 175 and 200 seconds ago, and
\* three seconds ahead of this browser's clock
CreatedAts ==
    { CountdownStart, CountdownStart - 170, CountdownStart - 175,
      CountdownStart - 200, CountdownStart + 3 }

CountdownServers ==
    UNION { { [i \in 1..k |-> Booking(i, "t1", LocalDate(1, 11 * 60 + 30 * i),
                                      PENDING, 2, "", f[i])] :
              f \in [1..k -> CreatedAts] } : k \in 1..MaxBookings }

InitCountdown ==
    /\ workStarts = <<10, 0>>
    /\ workEnds = <<14, 0>>
    /\ tz = 180
    /\ now = CountdownStart
    /\ server \in CountdownServers
    /\ bookings = [c \in Clients |-> server]
    /\ layout = DefaultLayout
    /\ dialog = [c \in Clients |-> NoDialog]
    /\ net = {}
    /\ sweep = [c \in Clients |-> IntervalSecs]
    /\ interval = 30
    /\ slots = <<>>
    /\ within = <<>>
    /\ statusColor = <<>>
    /\ tableStatuses = <<>>
    /\ timeLeft = <<>>
    /\ elements = [c \in Clients |-> <<>>]

\* a second passes once every timer callback that is due has run
NextCountdown ==
    \/ RenderRequestCards("staff")
    \/ \E i \in 1..MaxBookings : TimerFire("staff", i)
    \/ \E i \in 1..MaxBookings : Decline("staff", i, "no seats")
    \/ \E m \in net : \/ ServeUpdateStatus(m)
                       \/ RecvStatusUpdated(m)
    \/ /\ now < CountdownStart + CountdownSpan
       /\ \A i \in DOMAIN timeLeft : timeLeft[i].wait > 0
       /\ Tick(TimerSecs)

SpecCountdown == InitCountdown /\ [][NextCountdown]_vars

----------------------------------------------------------------------------
(* C17: the countdown of a pending request is max(0, 180 - seconds elapsed
   since createdAt) at every instant, once the timer callback due at that
   instant has run: it is never negative, and from createdAt + 180 s on its
   text is 0:00 *)
C17_Countdown ==
    \A i \in DOMAIN timeLeft :
        LET elapsed == now - bookings["staff"][i].createdAt
            t == timeLeft[i].timeLeft
        IN  /\ t >= 0
            /\ timeLeft[i].wait > 0 =>
                  /\ t = (IF ExpirySecs - elapsed > 0 THEN ExpirySecs - elapsed ELSE 0)
                  /\ elapsed >= ExpirySecs => CountdownText(t) = <<0, 0>>

\* a card's timer ran at 181 seconds after createdAt or later, having shown
\* a positive time before
C17_Witness ==
    \E i \in DOMAIN timeLeft :
        /\ now - bookings["staff"][i].createdAt > ExpirySecs
        /\ now - bookings["staff"][i].createdAt < ExpirySecs + CountdownSpan
        /\ now > CountdownStart
        /\ timeLeft[i].wait > 0
        /\ timeLeft[i].timeLeft = 0

----------------------------------------------------------------------------
(* SpecTwin: two guests whose stores hold the same bookings, in opposite
   order, open the dialog and choose dates independently *)

Reverse(seq) == [i \in 1..Len(seq) |-> seq[Len(seq) + 1 - i]]

InitTwin ==
    /\ \E wh \in WorkHours : workStarts = wh[1] /\ workEnds = wh[2]
    /\ tz = 0
    /\ now \in Nows
    /\ \E st \in InitStores :
          bookings = [c \in Clients |-> IF c = "g1" THEN st
                                        ELSE IF c = "g2" THEN Reverse(st)
                                        ELSE <<>>]
    /\ layout = DefaultLayout
    /\ dialog = [c \in Clients |-> NoDialog]
    /\ server = <<>>
    /\ net = {}
    /\ sweep = [c \in Clients |-> 0]
    /\ interval = 30
    /\ slots = <<>>
    /\ within = <<>>
    /\ statusColor = <<>>
    /\ tableStatuses = <<>>
    /\ timeLeft = <<>>
    /\ elements = [c \in Clients |-> <<>>]

NextTwin ==
    \/ \E c \in Guests, t \in Tables : OpenDialog(c, t)
    \/ \E c \in Guests, date \in Dates : SetBookingDate(c, date)
    \/ \E n \in GuestCounts : SetGuestCount("g2", n)

SpecTwin == InitTwin /\ [][NextTwin]_vars

\* the bookings of a store, whatever their order
BookingSet(c) == { bookings[c][i] : i \in 1..Len(bookings[c]) }

\* C18: two dialogs with the same table, the same selected date and the same
\* set of bookings, under the same work hours at the same now, hold the same
\* sequence of slot labels, whatever else differs between them
C18_Deterministic ==
    ( /\ dialog["g1"].open /\ dialog["g2"].open
      /\ dialog["g1"].table = dialog["g2"].table
      /\ dialog["g1"].bookingDate = dialog["g2"].bookingDate
      /\ BookingSet("g1") = BookingSet("g2") )
    => dialog["g1"].availableSlots = dialog["g2"].availableSlots

\* both dialogs show the same non-empty list for a table with two bookings
\* on the chosen shift, which the two stores hold in different order, and
\* the guest counts entered differ
C18_Witness ==
    /\ dialog["g1"].open /\ dialog["g2"].open
    /\ dialog["g1"].table = dialog["g2"].table
    /\ dialog["g1"].bookingDate = dialog["g2"].bookingDate
    /\ bookings["g1"] # bookings["g2"]
    /\ Cardinality(bookingMinsList(bookings["g1"], dialog["g1"].table, workStarts,
                                   workEnds, dialog["g1"].bookingDate)) = 2
    /\ dialog["g1"].guestCount # dialog["g2"].guestCount
    /\ Len(dialog["g1"].availableSlots) > 0

----------------------------------------------------------------------------
(* SpecTurnover: staff confirm requests and free tables at one instant, over
   drawn stores in which a table may have several due bookings *)

TurnoverNow == LocalDate(1, 12 * 60)

\* two hours ago, an hour ago, now, half an hour ahead
TurnoverTimes ==
    { TurnoverNow - 7200, TurnoverNow - 3600, TurnoverNow, TurnoverNow + 1800 }

TurnoverStores ==
    UNION { { [i \in 1..k |-> Booking(i, tb[i], tm[i], st[i], 2, "", 0)] :
              tb \in [1..k -> Tables], tm \in [1..k -> TurnoverTimes],
              st \in [1..k -> BookingStatus] } : k \in 1..MaxBookings }

InitTurnover ==
    /\ workStarts = <<10, 0>>
    /\ workEnds = <<23, 0>>
    /\ tz = 0
    /\ now = TurnoverNow
    /\ server \in TurnoverStores
    /\ bookings = [c \in Clients |-> server]
    /\ layout = DefaultLayout
    /\ dialog = [c \in Clients |-> NoDialog]
    /\ net = {}
    /\ sweep = [c \in Clients |-> IntervalSecs]
    /\ interval = 30
    /\ slots = <<>>
    /\ within = <<>>
    /\ statusColor = <<>>
    /\ tableStatuses = <<>>
    /\ timeLeft = <<>>
    /\ elements = [c \in Clients |-> <<>>]

NextTurnover ==
    \/ \E i \in 1..MaxBookings : Confirm("staff", i)
    \/ \E t \in Tables : MarkFree("staff", t)
    \/ \E m \in net : \/ ServeUpdateStatus(m)
                       \/ ServeError(m)
                       \/ RecvStatusUpdated(m)
    \/ RenderFloorMap("staff")

SpecTurnover == InitTurnover /\ [][NextTurnover]_vars

\* the bookings of table t in the staff's store that are due and seated or
\* confirmed
DueSeated(t) ==
    { i \in 1..Len(bookings["staff"]) :
        /\ bookings["staff"][i].tableId = t
        /\ bookings["staff"][i].status \in {CONFIRMED, OCCUPIED}
        /\ bookings["staff"][i].dateTime <= now }

\* booking i is a due CONFIRMED or OCCUPIED booking of t and none of them
\* has a later dateTime
LatestDue(t, i) ==
    /\ i \in DueSeated(t)
    /\ \A j \in DueSeated(t) :
          bookings["staff"][j].dateTime <= bookings["staff"][i].dateTime

----------------------------------------------------------------------------
(* C21: of the due CONFIRMED or OCCUPIED bookings of a table, the one taken
   as the table's current booking, and the one a mark-free sets to COMPLETED,
   has the latest dateTime not exceeding now; one is taken whenever there is
   any; no PENDING, DECLINED, COMPLETED or future booking is ever taken *)
C21_LatestDueWins ==
    [][ /\ \A t \in Tables :
              /\ \A i \in currentBooking(bookings["staff"], t, now) : LatestDue(t, i)
              /\ \A i \in activeBooking(bookings["staff"], t, now) : LatestDue(t, i)
              /\ DueSeated(t) # {} =>
                    /\ Cardinality(currentBooking(bookings["staff"], t, now)) = 1
                    /\ Cardinality(activeBooking(bookings["staff"], t, now)) = 1
        /\ \A r \in net' \ net :
              (r.type = "updateStatus" /\ r.status = COMPLETED)
                 => \E t \in Tables, i \in 1..Len(bookings["staff"]) :
                       /\ bookings["staff"][i].id = r.id
                       /\ LatestDue(t, i) ]_vars

\* table t1 has two due bookings, CONFIRMED or OCCUPIED, of different
\* times; staff pressed mark-free and the server's answer that the later one
\* is COMPLETED is on its way
C21_Witness ==
    /\ Len(bookings["staff"]) = 2
    /\ \E i, j \in 1..2 :
          /\ bookings["staff"][i].tableId = "t1"
          /\ bookings["staff"][j].tableId = "t1"
          /\ bookings["staff"][j].dateTime < bookings["staff"][i].dateTime
          /\ bookings["staff"][i].dateTime <= now
          /\ bookings["staff"][i].status \in {CONFIRMED, OCCUPIED}
          /\ bookings["staff"][j].status \in {CONFIRMED, OCCUPIED}
          /\ server[i].status = COMPLETED
          /\ \E m \in net : /\ m.type = "statusUpdated"
                             /\ m.id = bookings["staff"][i].id
                             /\ m.status = COMPLETED

----------------------------------------------------------------------------
(* SpecWithheld: the staff and a second guest keep the dialog of table t1
   open while a guest books it and the staff confirm, decline, cancel and
   free *)

\* how many intervals' worth of time SpecWithheld lets pass
WithheldPeriods == 2

WithheldStart == LocalDate(1, 11 * 60)

\* the server's bookings when the clients load them: none, or a walk-in
\* seated at t1 at 11:00
WithheldServers ==
    { <<>>, << Booking(1, "t1", WithheldStart, OCCUPIED, 2, "", 0) >> }

InitWithheld ==
    /\ workStarts = <<10, 0>>
    /\ workEnds = <<14, 0>>
    /\ tz = 180
    /\ now = WithheldStart
    /\ server \in WithheldServers
    /\ bookings = [c \in Clients |-> server]
    /\ layout = DefaultLayout
    /\ dialog = [c \in Clients |-> NoDialog]
    /\ net = {}
    /\ sweep = [c \in Clients |-> IntervalSecs]
    /\ interval = 30
    /\ slots = <<>>
    /\ within = <<>>
    /\ statusColor = <<>>
    /\ tableStatuses = <<>>
    /\ timeLeft = <<>>
    /\ elements = [c \in Clients |-> <<>>]

NextWithheld ==
    \/ \E c \in Clients \ {"owner"} : OpenDialog(c, "t1")
    \/ SubmitButton("g1", TRUE, TRUE)
    \/ \E m \in net : ServeCreateBooking(m)
    \/ \E m \in net : RecvCreated(m)
    \/ SweepFire("staff")
    \/ \E m \in net : ServeCleanupExpired(m)
    \/ \E m \in net : RecvCleanedUp(m)
    \/ \E m \in net : ServeGetBookings(m)
    \/ \E m \in net : RecvBookings(m)
    \/ \E i \in 1..MaxBookings : Confirm("staff", i)
    \/ \E i \in 1..MaxBookings : Decline("staff", i, "no seats")
    \/ \E i \in 1..MaxBookings : Cancel("staff", i)
    \/ MarkFree("staff", "t1")
    \/ \E m \in net : ServeUpdateStatus(m)
    \/ \E m \in net : RecvStatusUpdated(m)
    \/ now < WithheldStart + WithheldPeriods * IntervalSecs /\ Tick(IntervalSecs)

SpecWithheld == InitWithheld /\ [][NextWithheld]_vars

\* the minute offsets, from midnight of the date of client c's dialog, of the
\* bookings in the list bs that occupy the dialog's table inside the shift
\* window of that date
OccupiedIn(bs, c) ==
    LET d == dialog[c]
        s == workStarts[1] * 60 + workStarts[2]
        e0 == workEnds[1] * 60 + workEnds[2]
        e == IF e0 <= s THEN e0 + 1440 ELSE e0
    IN  { MinutesSince(d.bookingDate, bs[i].dateTime) :
            i \in { k \in 1..Len(bs) :
                      /\ bs[k].tableId = d.table
                      /\ bs[k].status \in {PENDING, CONFIRMED, OCCUPIED}
                      /\ MinutesSince(d.bookingDate, bs[k].dateTime) >= s
                      /\ bs[k].dateTime < d.bookingDate * 86400 + e * 60 } }

\* the slot at offset cand is withheld from client c exactly while a booking
\* of the list bs occupies the table within 60 minutes of it
WithheldBy(bs, c, cand) ==
    /\ (\E b \in OccupiedIn(bs, c) : cand - b < 60 /\ b - cand < 60)
            => ~Offered(c, cand)
    /\ ( /\ ~TooSoon(c, cand)
         /\ \A b \in OccupiedIn(bs, c) : cand - b >= 60 \/ b - cand >= 60 )
            => Offered(c, cand)

----------------------------------------------------------------------------
(* C22: through every sequence of submit, confirm, decline, cancel and
   mark-free, a slot is withheld from every open dialog exactly while some
   booking the restaurant holds for the table, inside the shift window and
   within 60 minutes of the slot, is PENDING, CONFIRMED or OCCUPIED: from
   the moment the request is stored until it is DECLINED or COMPLETED *)
C22_WithheldWhileOccupying ==
    \A c \in Clients :
        \* the dialogs of the others: no booking on the server is c's own
        (dialog[c].open /\ \A i \in 1..Len(server) : server[i].guestName # c) =>
            \A cand \in Grid(workStarts, workEnds) : WithheldBy(server, c, cand)

\* the same rule read against the bookings in the client's own store
C22_InOwnStore ==
    \A c \in Clients :
        dialog[c].open =>
            \A cand \in Grid(workStarts, workEnds) : WithheldBy(bookings[c], c, cand)

----------------------------------------------------------------------------
(* SpecPeriod: the staff's interval second by second while the staff answer
   two requests. Every request is answered ok and within the second it was
   sent in, and the interval runs at the second it comes due. *)

\* seconds the clock of SpecPeriod runs
PeriodSpan == 70

PeriodServer ==
    << Booking(1, "t1", LocalDate(1, 11 * 60), PENDING, 2, "", SweepStart),
       Booking(2, "t2", LocalDate(1, 11 * 60), PENDING, 2, "", SweepStart) >>

InitPeriod ==
    /\ workStarts = <<10, 0>>
    /\ workEnds = <<12, 0>>
    /\ tz = 180
    /\ now = SweepStart
    /\ server = PeriodServer
    /\ bookings = [c \in Clients |-> server]
    /\ layout = DefaultLayout
    /\ dialog = [c \in Clients |-> NoDialog]
    /\ net = {}
    /\ sweep = [c \in Clients |-> IntervalSecs]
    /\ interval = 30
    /\ slots = <<>>
    /\ within = <<>>
    /\ statusColor = <<>>
    /\ tableStatuses = <<>>
    /\ timeLeft = <<>>
    /\ elements = [c \in Clients |-> <<>>]

NextPeriod ==
    \/ \E i \in 1..MaxBookings : Confirm("staff", i)
    \/ \E i \in 1..MaxBookings : Decline("staff", i, "no seats")
    \/ \E m \in net : ServeUpdateStatus(m)
    \/ \E m \in net : RecvStatusUpdated(m)
    \/ SweepFire("staff")
    \/ \E m \in net : ServeCleanupExpired(m)
    \/ \E m \in net : RecvCleanedUp(m)
    \/ \E m \in net : ServeGetBookings(m)
    \/ \E m \in net : RecvBookings(m)
    \/ /\ now < SweepStart + PeriodSpan
       /\ net = {}
       /\ \A c \in Pollers : sweep[c] > 0
       /\ Tick(1)

SpecPeriod == InitPeriod /\ [][NextPeriod]_vars

----------------------------------------------------------------------------
(* C25: the sweep keeps its 30-second period whatever else updates the
   store: the time left until the staff's next sweep never grows except when
   a sweep fires, so that a sweep follows the previous one, or the mounting
   of the provider, within 30 seconds *)
C25_FixedPeriod ==
    [][ \A c \in Pollers :
            sweep'[c] > sweep[c]
               => /\ sweep[c] = 0
                  /\ \E m \in net' \ net : m.type = "cleanupExpired" /\ m.from = c ]_vars

----------------------------------------------------------------------------
(* C26: an applied status update changes only the status and declineReason
   of the booking with the given id: the status becomes the one asked for,
   the reason is the given one for a decline and cleared otherwise, every
   other field of the booking, every other booking and every other store
   stay as they were *)
StatusFrame(old, new, m) ==
    /\ Len(new) = Len(old)
    /\ \A i \in 1..Len(old) :
          IF old[i].id = m.id
          THEN /\ new[i] = [old[i] EXCEPT !.status = new[i].status,
                                          !.declineReason = new[i].declineReason]
               /\ new[i].status = m.status
               /\ new[i].declineReason = IF m.status = DECLINED THEN m.reason ELSE ""
          ELSE new[i] = old[i]

----------------------------------------------------------------------------
(* C28: no booking is submitted with a dateTime earlier than the moment of
   submission, whatever date is selected in the dialog *)
C28_NotInThePast ==
    [][ \A r \in net' \ net : r.type = "createBooking" => r.dateTime >= now ]_vars

\* the same for the submissions of a dialog whose date is the local date of
\* the submission and whose browser is not west of UTC
C28_TodayNotInThePast ==
    [][ \A r \in net' \ net :
            r.type = "createBooking" /\ tz >= 0
               /\ dialog[r.from].bookingDate = DateOf(now)
               => r.dateTime >= now ]_vars

----------------------------------------------------------------------------
(* C29: once the answer to a mark-free is applied, the table of the freed
   booking has no current due booking: nothing of it is in the occupied
   tables list and the floor map finds no due CONFIRMED or OCCUPIED booking
   of it *)
C29_FreedTableIsFree ==
    [][ \A m \in net \ net' :
            (m.type = "statusUpdated" /\ m.status = COMPLETED)
               => \A i \in 1..Len(bookings[m.to]) :
                     bookings[m.to][i].id = m.id
                        => /\ activeBooking(bookings'[m.to],
                                            bookings[m.to][i].tableId, now) = {}
                           /\ currentBooking(bookings'[m.to],
                                             bookings[m.to][i].tableId, now) = {}
      ]_vars

----------------------------------------------------------------------------
(* SpecDesk: the staff book table t1 from their own dialog and answer a
   request while their interval polls; any request may fail *)

\* how many intervals' worth of time SpecDesk lets pass
DeskPeriods == 2

DeskStart == LocalDate(1, 11 * 60)

DeskServers ==
    { <<>>, << Booking(1, "t2", LocalDate(1, 13 * 60), PENDING, 2, "", DeskStart) >> }

InitDesk ==
    /\ workStarts = <<10, 0>>
    /\ workEnds = <<14, 0>>
    /\ tz = 180
    /\ now = DeskStart
    /\ server \in DeskServers
    /\ bookings = [c \in Clients |-> server]
    /\ layout = DefaultLayout
    /\ dialog = [c \in Clients |-> NoDialog]
    /\ net = {}
    /\ sweep = [c \in Clients |-> IntervalSecs]
    /\ interval = 30
    /\ slots = <<>>
    /\ within = <<>>
    /\ statusColor = <<>>
    /\ tableStatuses = <<>>
    /\ timeLeft = <<>>
    /\ elements = [c \in Clients |-> <<>>]

NextDesk ==
    \/ OpenDialog("staff", "t1")
    \/ SubmitButton("staff", TRUE, TRUE)
    \/ \E m \in net : ServeCreateBooking(m)
    \/ \E m \in net : RecvCreated(m)
    \/ \E m \in net : ServeError(m)
    \/ \E m \in net : RecvCreateFailed(m)
    \/ SweepFire("staff")
    \/ \E m \in net : ServeCleanupExpired(m)
    \/ \E m \in net : RecvCleanedUp(m)
    \/ \E m \in net : ServeGetBookings(m)
    \/ \E m \in net : RecvBookings(m)
    \/ \E i \in 1..MaxBookings : Confirm("staff", i)
    \/ \E i \in 1..MaxBookings : Decline("staff", i, "no seats")
    \/ \E m \in net : ServeUpdateStatus(m)
    \/ \E m \in net : RecvStatusUpdated(m)
    \/ now < DeskStart + DeskPeriods * IntervalSecs /\ Tick(IntervalSecs)

SpecDesk == InitDesk /\ [][NextDesk]_vars

----------------------------------------------------------------------------
(* C27: a store's booking list holds at most one entry per booking id,
   however the answers to addBooking and to the poll's loadBookings are
   interleaved *)
C27_OneEntryPerId ==
    \A c \in Clients :
       \A i, j \in 1..Len(bookings[c]) :
          bookings[c][i].id = bookings[c][j].id => i = j

----------------------------------------------------------------------------
(* C30: a failed request leaves the store as it is: a store changes only in
   the step that applies an ok answer to its client, the step in which a
   request is rejected changes no store, and when the create request fails
   the store keeps its list and the dialog stays open and shows the error *)
OkAnswers == {"created", "statusUpdated", "bookingsList", "layoutUpdated"}

C30_FailureLeavesStore ==
    [][ /\ \A c \in Clients :
              bookings'[c] # bookings[c]
                 => \E m \in net \ net' : m.type \in OkAnswers /\ m.to = c
        /\ \A m \in net \ net' :
              (m.type \in Requests /\ \A a \in net' \ net : a.type = "createFailed")
                 => bookings' = bookings /\ server' = server
        /\ \A m \in net \ net' :
              m.type = "createFailed"
                 => /\ bookings' = bookings
                    /\ dialog[m.to].open
                          => /\ dialog'[m.to].open
                             /\ dialog'[m.to].error = "request" ]_vars

\* the staff's create request failed: the dialog is open with the error and
\* neither the store nor the server has a booking
C30_Witness ==
    /\ dialog["staff"].open
    /\ dialog["staff"].error = "request"
    /\ bookings["staff"] = <<>>
    /\ server = <<>>
    /\ net = {}

====
